---- MODULE Spec2Model ----
(***************************************************************************)
(* Model of the requirement parser and constraint evaluator of the doctor  *)
(* CLI (src/src/doctor.ts, class EnvChecker).                              *)
(*                                                                         *)
(* A JavaScript string is a sequence of one-character strings, so that     *)
(* split, trim, the fragment regular expression, semver.clean and the      *)
(* template literals of the code are computed character by character.      *)
(* The two fixed diagnostics prefixes of the code are single tokens.       *)
(***************************************************************************)
EXTENDS Integers, Sequences, FiniteSets, TLC

\* A value of type "string | null" is a sequence of at most one string:
\* None is null, Some(s) is the string s.
None == <<>>
Some(s) == <<s>>

\* JavaScript truthiness of a "string | null": null and "" are falsy.
Truthy(x) == x # None /\ Len(x[1]) > 0

-----------------------------------------------------------------------------
(* Characters                                                              *)

Digits == <<"0", "1", "2", "3", "4", "5", "6", "7", "8", "9">>

IsDigit(c) == \E i \in 1..Len(Digits) : Digits[i] = c

DigitValue(c) == (CHOOSE i \in 1..Len(Digits) : Digits[i] = c) - 1

\* The lower-case letters, in code-unit order (the inputs use no others).
Letters == <<"a", "b", "c", "d", "e", "f", "g", "h", "i", "j", "k", "l", "m",
             "n", "o", "p", "q", "r", "s", "t", "u", "v", "w", "x", "y", "z">>

IsLetter(c) == \E i \in 1..Len(Letters) : Letters[i] = c

\* UTF-16 code-unit order of the characters an identifier can hold:
\* "-" (45) < digits (48..57) < letters (97..122).
CharCode(c) ==
    IF c = "-" THEN 0
    ELSE IF IsDigit(c) THEN 1 + DigitValue(c)
    ELSE 10 + (CHOOSE i \in 1..Len(Letters) : Letters[i] = c)

\* LineTerminator of ECMAScript: "." of a regular expression does not match it.
IsLineTerminator(c) == c \in {"\n", "\r"}

\* WhiteSpace and LineTerminator: what String.prototype.trim removes and \s matches.
IsSpace(c) == c \in {" ", "\t"} \/ IsLineTerminator(c)

-----------------------------------------------------------------------------
(* String primitives of JavaScript                                         *)

DropFirst(s, n) == SubSeq(s, n + 1, Len(s))

StartsWith(s, p) == Len(s) >= Len(p) /\ SubSeq(s, 1, Len(p)) = p

\* Number of leading characters of s that satisfy the class.
LeadingSpaces(s) ==
    IF \A i \in 1..Len(s) : IsSpace(s[i]) THEN Len(s)
    ELSE (CHOOSE i \in 1..Len(s) :
            /\ ~IsSpace(s[i])
            /\ \A j \in 1..(i - 1) : IsSpace(s[j])) - 1

TrailingSpaces(s) ==
    IF \A i \in 1..Len(s) : IsSpace(s[i]) THEN Len(s)
    ELSE Len(s) - (CHOOSE i \in 1..Len(s) :
            /\ ~IsSpace(s[i])
            /\ \A j \in (i + 1)..Len(s) : IsSpace(s[j]))

\* Variant: String.prototype.trimStart
TrimStart(s) ==
    IF \A i \in 1..Len(s) : IsSpace(s[i]) THEN <<>>
    ELSE SubSeq(s, LeadingSpaces(s) + 1, Len(s))

\* String.prototype.trim
Trim(s) ==
    IF \A i \in 1..Len(s) : IsSpace(s[i]) THEN <<>>
    ELSE SubSeq(s, LeadingSpaces(s) + 1, Len(s) - TrailingSpaces(s))

\* Position of the first occurrence of character c in s, 0 when there is none.
IndexOf(s, c) ==
    IF \E i \in 1..Len(s) : s[i] = c
    THEN CHOOSE i \in 1..Len(s) : s[i] = c /\ \A j \in 1..(i - 1) : s[j] # c
    ELSE 0

\* String.prototype.split(c) for a one-character separator: "" gives [""].
RECURSIVE Split(_, _)
SplitAt(s, c, i) ==
    IF i = 0 THEN <<s>>
    ELSE <<SubSeq(s, 1, i - 1)>> \o Split(DropFirst(s, i), c)

Split(s, c) == SplitAt(s, c, IndexOf(s, c))

\* Array.prototype.join(c)
RECURSIVE Join(_, _)
Join(parts, c) ==
    IF Len(parts) = 0 THEN <<>>
    ELSE IF Len(parts) = 1 THEN parts[1]
    ELSE parts[1] \o <<c>> \o Join(Tail(parts), c)

\* Reading and writing a decimal numeral (Number(...) and String(...)).
RECURSIVE ParseNat(_)
ParseNat(s) ==
    IF Len(s) = 0 THEN 0
    ELSE 10 * ParseNat(SubSeq(s, 1, Len(s) - 1)) + DigitValue(s[Len(s)])

RECURSIVE FormatNat(_)
FormatNat(n) ==
    IF n < 10 THEN <<Digits[n + 1]>>
    ELSE FormatNat(n \div 10) \o <<Digits[(n % 10) + 1]>>

-----------------------------------------------------------------------------
(* parseStringRequirement                                                  *)

\* The alternation of the fragment pattern, in the order the pattern tries it.
OperatorAlternatives ==
    << <<">", "=">>, <<"<", "=">>, <<">">>, <<"<">>, <<"=">>, <<"^">>, <<"~">> >>

\* The closed set of operators of a constraint object.
Operators == {OperatorAlternatives[i] : i \in 1..Len(OperatorAlternatives)}

\* (.+)$ : one or more characters, none a line terminator, up to the end.
DotPlusToEnd(s) == Len(s) > 0 /\ \A i \in 1..Len(s) : ~IsLineTerminator(s[i])

\* \s*(.+)$ matches the whole of rest with a \s* run of k characters.
RestMatches(rest, k) == k <= LeadingSpaces(rest) /\ DotPlusToEnd(DropFirst(rest, k))

\* The alternatives of the pattern under which the whole of part matches
\* ^(op)\s*(.+)$ for some length of the \s* run.
MatchingAlternatives(part) ==
    {a \in 1..Len(OperatorAlternatives) :
        /\ StartsWith(part, OperatorAlternatives[a])
        /\ \E k \in 0..Len(part) :
              RestMatches(DropFirst(part, Len(OperatorAlternatives[a])), k)}

Min(S) == CHOOSE x \in S : \A y \in S : x <= y
Max(S) == CHOOSE x \in S : \A y \in S : x >= y

\* The capture groups under alternative op: \s* is greedy, so group 2 begins
\* after the longest run of blanks that lets (.+)$ match.
MatchGroups(op, rest) ==
    <<op, DropFirst(rest, Max({k \in 0..Len(rest) : RestMatches(rest, k)}))>>

MatchUnder(part, alts) ==
    IF alts = {} THEN <<>>
    ELSE MatchGroups(OperatorAlternatives[Min(alts)],
                     DropFirst(part, Len(OperatorAlternatives[Min(alts)])))

\* part.match(/^(>=|<=|>|<|=|\^|~)\s*(.+)$/): the backtracking matcher takes the
\* first alternative that lets the rest of the pattern match. The result is
\* the pair of capture groups, or the empty sequence when the pattern does
\* not match (null).
MatchFragment(part) == MatchUnder(part, MatchingAlternatives(part))

\* if (match && match[1] && match[2]) parsed.push({operator, version.trim()})
PushMatch(parsed, match) ==
    IF Len(match) > 0 /\ Len(match[1]) > 0 /\ Len(match[2]) > 0
    THEN Append(parsed, [operator |-> match[1], version |-> Trim(match[2])])
    ELSE parsed

\* Variant: break at the first part that does not match.
RECURSIVE ParsePartsUntilMismatch(_, _)
ParsePartsUntilMismatch(parts, parsed) ==
    IF Len(parts) = 0 \/ Len(MatchFragment(parts[1])) = 0 THEN parsed
    ELSE ParsePartsUntilMismatch(Tail(parts),
                                 PushMatch(parsed, MatchFragment(parts[1])))

\* The loop of parseStringRequirement over the trimmed parts.
RECURSIVE ParseParts(_, _)
ParseParts(parts, parsed) ==
    IF Len(parts) = 0 THEN parsed
    ELSE ParseParts(Tail(parts), PushMatch(parsed, MatchFragment(parts[1])))

\* parts.map((part) => part.trim())
TrimAll(parts) == [i \in 1..Len(parts) |-> Trim(parts[i])]

parseStringRequirement(requirement) ==
    ParseParts(TrimAll(Split(requirement, ",")), <<>>)

-----------------------------------------------------------------------------
(* The semver library, as the code uses it: clean and satisfies            *)

\* 0|[1-9]\d*
IsNumericIdentifier(s) ==
    /\ Len(s) > 0
    /\ \A i \in 1..Len(s) : IsDigit(s[i])
    /\ (Len(s) = 1 \/ s[1] # "0")

IsIdentifierChar(c) == IsDigit(c) \/ IsLetter(c) \/ c = "-"

\* 0|[1-9]\d*|\d*[a-zA-Z-][a-zA-Z0-9-]*
IsPrereleaseIdentifier(s) ==
    \/ IsNumericIdentifier(s)
    \/ /\ Len(s) > 0
       /\ \A i \in 1..Len(s) : IsIdentifierChar(s[i])
       /\ \E i \in 1..Len(s) : ~IsDigit(s[i])

\* [0-9A-Za-z-]+
IsBuildIdentifier(s) == Len(s) > 0 /\ \A i \in 1..Len(s) : IsIdentifierChar(s[i])

\* Position of the first "-" or "+" of s, 0 when there is none.
FirstDelimiter(s) ==
    IF \E i \in 1..Len(s) : s[i] \in {"-", "+"}
    THEN Min({i \in 1..Len(s) : s[i] \in {"-", "+"}})
    ELSE 0

\* The fields of a version text that has matched the pattern.
MakeSemVer(nums, hasPre, preIds, hasBuild, buildIds) ==
    IF /\ Len(nums) = 3
       /\ \A i \in 1..3 : IsNumericIdentifier(nums[i])
       /\ hasPre => \A i \in 1..Len(preIds) : IsPrereleaseIdentifier(preIds[i])
       /\ hasBuild => \A i \in 1..Len(buildIds) : IsBuildIdentifier(buildIds[i])
    THEN Some([major |-> ParseNat(nums[1]),
               minor |-> ParseNat(nums[2]),
               patch |-> ParseNat(nums[3]),
               prerelease |-> IF hasPre THEN preIds ELSE <<>>])
    ELSE None

\* rest is the text from the first "-" or "+" on; plus is the position of the
\* "+" that opens the build metadata, 0 when there is none.
ParseAfterCore(core, hasPre, rest, plus) ==
    MakeSemVer(Split(core, "."),
               hasPre,
               Split(IF ~hasPre THEN <<>>
                     ELSE IF plus = 0 THEN Tail(rest)
                     ELSE SubSeq(rest, 2, plus - 1), "."),
               plus > 0,
               Split(IF plus > 0 THEN DropFirst(rest, plus) ELSE <<>>, "."))

\* cut is the position of the first "-" or "+" of u, 0 when there is none.
ParseAtCut(u, cut) ==
    ParseAfterCore(IF cut = 0 THEN u ELSE SubSeq(u, 1, cut - 1),
                   cut > 0 /\ u[cut] = "-",
                   IF cut = 0 THEN <<>> ELSE DropFirst(u, cut - 1),
                   IF cut = 0 THEN 0 ELSE IndexOf(DropFirst(u, cut - 1), "+"))

\* The leading v? of the pattern.
DropOptionalV(t) == IF StartsWith(t, <<"v">>) THEN Tail(t) ELSE t

ParseUnprefixed(u) == ParseAtCut(u, FirstDelimiter(u))

\* new SemVer(version) in strict mode: version.trim() against
\* ^v?MAJOR.MINOR.PATCH(-PRERELEASE)?(+BUILD)?$ . None when it does not match
\* (parse returns null), else Some of the parsed version; build metadata is
\* read and not kept in the version text.
ParseSemVer(version) == ParseUnprefixed(DropOptionalV(Trim(version)))

\* SemVer.format(): the version text, without build metadata.
FormatSemVer(v) ==
    FormatNat(v.major) \o <<".">> \o FormatNat(v.minor) \o <<".">> \o FormatNat(v.patch)
      \o (IF Len(v.prerelease) > 0 THEN <<"-">> \o Join(v.prerelease, ".") ELSE <<>>)

\* version.replace(/^[=v]+/, "")
StripEqualsAndV(s) ==
    IF \A i \in 1..Len(s) : s[i] \in {"=", "v"} THEN <<>>
    ELSE DropFirst(s, Min({i \in 1..Len(s) : s[i] \notin {"=", "v"}}) - 1)

\* semver.clean(version): parse(version.trim().replace(/^[=v]+/, "")) and the
\* version text of the result, or null.
VersionText(s) == IF s = None THEN None ELSE Some(FormatSemVer(s[1]))

semverClean(version) == VersionText(ParseSemVer(StripEqualsAndV(Trim(version))))

\* a < b on strings: comparison by code units, a proper prefix being smaller.
RECURSIVE StringLess(_, _)
StringLess(a, b) ==
    IF Len(b) = 0 THEN FALSE
    ELSE IF Len(a) = 0 THEN TRUE
    ELSE IF a[1] # b[1] THEN CharCode(a[1]) < CharCode(b[1])
    ELSE StringLess(Tail(a), Tail(b))

IsAllDigits(s) == Len(s) > 0 /\ \A i \in 1..Len(s) : IsDigit(s[i])

\* compareIdentifiers(a, b): numeric identifiers compare as numbers and come
\* before the others, which compare as strings. -1, 0 or 1.
compareIdentifiers(a, b) ==
    IF IsAllDigits(a) /\ IsAllDigits(b)
    THEN (IF ParseNat(a) = ParseNat(b) THEN 0
          ELSE IF ParseNat(a) < ParseNat(b) THEN -1 ELSE 1)
    ELSE IF a = b THEN 0
    ELSE IF IsAllDigits(a) THEN -1
    ELSE IF IsAllDigits(b) THEN 1
    ELSE IF StringLess(a, b) THEN -1 ELSE 1

CompareNat(a, b) == IF a = b THEN 0 ELSE IF a < b THEN -1 ELSE 1

\* SemVer.compareMain
compareMain(a, b) ==
    IF a.major # b.major THEN CompareNat(a.major, b.major)
    ELSE IF a.minor # b.minor THEN CompareNat(a.minor, b.minor)
    ELSE CompareNat(a.patch, b.patch)

\* The identifier loop of SemVer.comparePre.
RECURSIVE ComparePreFrom(_, _, _)
ComparePreFrom(a, b, i) ==
    IF i > Len(a) /\ i > Len(b) THEN 0
    ELSE IF i > Len(b) THEN 1
    ELSE IF i > Len(a) THEN -1
    ELSE IF a[i] = b[i] THEN ComparePreFrom(a, b, i + 1)
    ELSE compareIdentifiers(a[i], b[i])

\* SemVer.comparePre: a version with a prerelease comes before its release.
comparePre(a, b) ==
    IF Len(a.prerelease) > 0 /\ Len(b.prerelease) = 0 THEN -1
    ELSE IF Len(a.prerelease) = 0 /\ Len(b.prerelease) > 0 THEN 1
    ELSE IF Len(a.prerelease) = 0 /\ Len(b.prerelease) = 0 THEN 0
    ELSE ComparePreFrom(a.prerelease, b.prerelease, 1)

\* this.compareMain(other) || this.comparePre(other)
OrElse(main, pre) == IF main # 0 THEN main ELSE pre

\* SemVer.compare
compare(a, b) == OrElse(compareMain(a, b), comparePre(a, b))

\* The test an operator makes of a comparison; "" and "=" are equality.
OperatorAdmits(op, c) ==
    CASE op = <<">">>      -> c > 0
      [] op = <<">", "=">> -> c >= 0
      [] op = <<"<">>      -> c < 0
      [] op = <<"<", "=">> -> c <= 0
      [] OTHER             -> c = 0

\* cmp(a, op, b) of the library
cmp(a, op, b) == OperatorAdmits(op, compare(a, b))

\* The exclusive upper bound "<M.m.p-0" the library writes for a caret or tilde.
UpperBound(major, minor, patch) ==
    [operator |-> <<"<">>,
     semver |-> [major |-> major, minor |-> minor, patch |-> patch,
                 prerelease |-> << <<"0">> >>]]

\* Variant: the upper bound is the next major whatever the version.
CaretComparatorsNextMajor(v) ==
    << [operator |-> <<">", "=">>, semver |-> v],
       UpperBound(v.major + 1, 0, 0) >>

\* replaceCaret for a full version: the leftmost non-zero component is kept.
CaretComparators(v) ==
    << [operator |-> <<">", "=">>, semver |-> v],
       IF v.major # 0 THEN UpperBound(v.major + 1, 0, 0)
       ELSE IF v.minor # 0 THEN UpperBound(0, v.minor + 1, 0)
       ELSE UpperBound(0, 0, v.patch + 1) >>

\* replaceTilde for a full version: patch-level changes.
TildeComparators(v) ==
    << [operator |-> <<">", "=">>, semver |-> v],
       UpperBound(v.major, v.minor + 1, 0) >>

\* The operator a range text of one comparator begins with: "^", "~", or
\* ((?:<|>)?=?), possibly empty.
RangeOperator(range) ==
    IF Len(range) > 0 /\ range[1] \in {"^", "~"} THEN SubSeq(range, 1, 1)
    ELSE IF Len(range) > 1 /\ range[1] \in {"<", ">"} /\ range[2] = "=" THEN SubSeq(range, 1, 2)
    ELSE IF Len(range) > 0 /\ range[1] \in {"<", ">", "="} THEN SubSeq(range, 1, 1)
    ELSE <<>>

\* The comparators of operator op applied to the parsed version v; none when
\* the version text did not parse.
ComparatorsOf(op, v) ==
    IF v = None THEN <<>>
    ELSE IF op = <<"^">> THEN CaretComparators(v[1])
    ELSE IF op = <<"~">> THEN TildeComparators(v[1])
    ELSE << [operator |-> op, semver |-> v[1]] >>

\* new Range(range) for a range of one comparator text without blanks: the
\* comparators of its only set, or the empty sequence when the text is no
\* range (the constructor throws).
RangeComparators(range) ==
    ComparatorsOf(RangeOperator(range),
                  ParseSemVer(DropFirst(range, Len(RangeOperator(range)))))

\* testSet: every comparator admits the version, and a version with a
\* prerelease is admitted only when a comparator of the set carries a
\* prerelease on the same major.minor.patch.
testSet(comps, version) ==
    /\ \A i \in 1..Len(comps) : cmp(version, comps[i].operator, comps[i].semver)
    /\ Len(version.prerelease) > 0 =>
          \E i \in 1..Len(comps) :
              /\ Len(comps[i].semver.prerelease) > 0
              /\ compareMain(comps[i].semver, version) = 0

\* semver.satisfies(version, range): false when the range or the version
\* does not parse, never a throw.
RangeTest(comps, v) == Len(comps) > 0 /\ v # None /\ testSet(comps, v[1])

semverSatisfies(version, range) ==
    RangeTest(RangeComparators(range), ParseSemVer(version))

-----------------------------------------------------------------------------
(* satisfiesRequirement                                                    *)

\* A VersionRequirement is one of three shapes: a string (text), a single
\* constraint object (the only element of items) or an array of constraint
\* objects (items).
StringRequirement(text) == [kind |-> "string", text |-> text, items |-> <<>>]
ObjectRequirement(req)  == [kind |-> "object", text |-> <<>>, items |-> <<req>>]
ArrayRequirement(reqs)  == [kind |-> "array",  text |-> <<>>, items |-> reqs]

RequirementCheckResult(satisfies, failedConstraints, satisfiedConstraints) ==
    [satisfies |-> satisfies,
     failedConstraints |-> failedConstraints,
     satisfiedConstraints |-> satisfiedConstraints]

\* The three fixed texts of the diagnostics.
InvalidCurrentVersionFormat == <<"Invalid current version format">>
InvalidVersionFormatPrefix  == <<"Invalid version format: ">>
ErrorProcessingRequirement  == <<"Error processing version requirement">>

InvalidCurrentResult ==
    RequirementCheckResult(FALSE, <<InvalidCurrentVersionFormat>>, <<>>)

CatchAllResult ==
    RequirementCheckResult(FALSE, <<ErrorProcessingRequirement>>, <<>>)

\* Variant: the diagnostic without the operator.
InvalidVersionFormatVersionOnly(req) == InvalidVersionFormatPrefix \o req.version

\* `Invalid version format: ${req.operator}${req.version}`
InvalidVersionFormat(req) == InvalidVersionFormatPrefix \o req.operator \o req.version

\* Variant: unshift in place of push.
PushRangeFront(lists, range, satisfies) ==
    IF ~satisfies
    THEN [failedConstraints |-> <<range>> \o lists.failedConstraints,
          satisfiedConstraints |-> lists.satisfiedConstraints]
    ELSE [failedConstraints |-> lists.failedConstraints,
          satisfiedConstraints |-> <<range>> \o lists.satisfiedConstraints]

\* if (!semver.satisfies(cleanCurrent, range)) failedConstraints.push(range)
\* else satisfiedConstraints.push(range): the two lists after the push.
PushRange(lists, range, satisfies) ==
    IF ~satisfies
    THEN [failedConstraints |-> Append(lists.failedConstraints, range),
          satisfiedConstraints |-> lists.satisfiedConstraints]
    ELSE [failedConstraints |-> lists.failedConstraints,
          satisfiedConstraints |-> Append(lists.satisfiedConstraints, range)]

\* Variant: a constraint whose version does not clean is skipped without a
\* diagnostic.
ClassifyConstraintSilent(cleanCurrent, req, cleanRequired, lists) ==
    IF ~Truthy(cleanRequired)
    THEN lists
    ELSE PushRange(lists,
                   req.operator \o cleanRequired[1],
                   semverSatisfies(cleanCurrent, req.operator \o cleanRequired[1]))

\* Variant: the entry pushed is the operator and the version as written.
ClassifyConstraintRaw(cleanCurrent, req, cleanRequired, lists) ==
    IF ~Truthy(cleanRequired)
    THEN [failedConstraints |-> Append(lists.failedConstraints, InvalidVersionFormat(req)),
          satisfiedConstraints |-> lists.satisfiedConstraints]
    ELSE PushRange(lists,
                   req.operator \o req.version,
                   semverSatisfies(cleanCurrent, req.operator \o cleanRequired[1]))

\* One constraint, its version cleaned: an invalid version is pushed to
\* failedConstraints with its raw text, any other is tested as a range.
ClassifyConstraint(cleanCurrent, req, cleanRequired, lists) ==
    IF ~Truthy(cleanRequired)
    THEN [failedConstraints |-> Append(lists.failedConstraints, InvalidVersionFormat(req)),
          satisfiedConstraints |-> lists.satisfiedConstraints]
    ELSE PushRange(lists,
                   req.operator \o cleanRequired[1],
                   semverSatisfies(cleanCurrent, req.operator \o cleanRequired[1]))

EmptyLists == [failedConstraints |-> <<>>, satisfiedConstraints |-> <<>>]

\* Variant: the loop ends at the first failed constraint.
RECURSIVE ConstraintLoopUntilFailure(_, _, _)
ConstraintLoopUntilFailure(cleanCurrent, reqs, lists) ==
    IF Len(reqs) = 0 \/ Len(lists.failedConstraints) > 0 THEN lists
    ELSE ConstraintLoopUntilFailure(cleanCurrent, Tail(reqs),
                        ClassifyConstraint(cleanCurrent, reqs[1],
                                           semverClean(reqs[1].version), lists))

\* The for loop over the constraints, the same in the string and in the array
\* branch: the lists after every constraint has been classified.
RECURSIVE ConstraintLoop(_, _, _)
ConstraintLoop(cleanCurrent, reqs, lists) ==
    IF Len(reqs) = 0 THEN lists
    ELSE ConstraintLoop(cleanCurrent, Tail(reqs),
                        ClassifyConstraint(cleanCurrent, reqs[1],
                                           semverClean(reqs[1].version), lists))

\* Variant: satisfies computed from the satisfied list.
ResultOfListsAnySatisfied(lists) ==
    RequirementCheckResult(Len(lists.satisfiedConstraints) > 0,
                           lists.failedConstraints, lists.satisfiedConstraints)

\* return { satisfies: failedConstraints.length === 0, ... }
ResultOfLists(lists) ==
    RequirementCheckResult(Len(lists.failedConstraints) = 0,
                           lists.failedConstraints, lists.satisfiedConstraints)

\* typeof requirement === "string"
StringBranch(cleanCurrent, text) ==
    ResultOfLists(ConstraintLoop(cleanCurrent, parseStringRequirement(text), EmptyLists))

\* Variant: the loop starts at the second constraint.
ArrayBranchFromSecond(cleanCurrent, reqs) ==
    ResultOfLists(ConstraintLoop(cleanCurrent,
                                 IF Len(reqs) = 0 THEN reqs ELSE Tail(reqs),
                                 EmptyLists))

\* Array.isArray(requirement)
ArrayBranch(cleanCurrent, reqs) ==
    ResultOfLists(ConstraintLoop(cleanCurrent, reqs, EmptyLists))

\* return { satisfies, failedConstraints, satisfiedConstraints } of the
\* single-object branch: satisfies is the value of semver.satisfies.
ResultOfSingle(satisfies, lists) ==
    RequirementCheckResult(satisfies, lists.failedConstraints, lists.satisfiedConstraints)

\* Variant: satisfies is read from the length of failedConstraints before
\* the range is pushed.
SingleTestedSatisfiesBeforePush(range, satisfies) ==
    ResultOfSingle(Len(EmptyLists.failedConstraints) = 0,
                   PushRange(EmptyLists, range, satisfies))

\* Variant: the lists are not filled in the single-object branch.
SingleTestedWithoutLists(range, satisfies) == ResultOfSingle(satisfies, EmptyLists)

SingleTested(range, satisfies) ==
    ResultOfSingle(satisfies, PushRange(EmptyLists, range, satisfies))

SingleCleaned(cleanCurrent, req, cleanRequired) ==
    IF ~Truthy(cleanRequired)
    THEN RequirementCheckResult(FALSE, <<InvalidVersionFormat(req)>>, <<>>)
    ELSE SingleTested(req.operator \o cleanRequired[1],
                      semverSatisfies(cleanCurrent, req.operator \o cleanRequired[1]))

\* The single constraint object.
ObjectBranch(cleanCurrent, req) ==
    SingleCleaned(cleanCurrent, req, semverClean(req.version))

\* Variant: a constraint version that does not clean makes the body throw.
BodyThrowsOnInvalidVersion(currentVersion, requirement) ==
    /\ Truthy(semverClean(currentVersion))
    /\ \E i \in DOMAIN requirement.items :
          ~Truthy(semverClean(requirement.items[i].version))

\* Whether the body of the try block throws. semver.clean and
\* semver.satisfies return null and false for a string they cannot parse and
\* throw only for a value that is no string, which the requirement type and
\* the config schema exclude.
BodyThrows(currentVersion, requirement) == FALSE

\* Variant: no early return for a current version that did not clean; the
\* branches run on an empty current version.
EvaluateCleanedNoReturn(cleanCurrent, requirement) ==
    IF requirement.kind = "string"
    THEN StringBranch(IF Truthy(cleanCurrent) THEN cleanCurrent[1] ELSE <<>>,
                      requirement.text)
    ELSE IF requirement.kind = "array"
    THEN ArrayBranch(IF Truthy(cleanCurrent) THEN cleanCurrent[1] ELSE <<>>,
                     requirement.items)
    ELSE ObjectBranch(IF Truthy(cleanCurrent) THEN cleanCurrent[1] ELSE <<>>,
                      requirement.items[1])

\* The body of the try block, the current version cleaned.
EvaluateCleaned(cleanCurrent, requirement) ==
    IF ~Truthy(cleanCurrent) THEN InvalidCurrentResult
    ELSE IF requirement.kind = "string"
         THEN StringBranch(cleanCurrent[1], requirement.text)
    ELSE IF requirement.kind = "array"
         THEN ArrayBranch(cleanCurrent[1], requirement.items)
    ELSE ObjectBranch(cleanCurrent[1], requirement.items[1])

satisfiesRequirement(currentVersion, requirement) ==
    IF BodyThrows(currentVersion, requirement) THEN CatchAllResult
    ELSE EvaluateCleaned(semverClean(currentVersion), requirement)

\* The earlier satisfiesRequirement, of a single constraint object, which
\* returns a boolean: false when either version does not clean, else the
\* range test; false also from its catch.
BooleanOfCleaned(cleanCurrent, operator, cleanRequired) ==
    IF ~Truthy(cleanCurrent) \/ ~Truthy(cleanRequired) THEN FALSE
    ELSE semverSatisfies(cleanCurrent[1], operator \o cleanRequired[1])

satisfiesRequirementBoolean(current, req) ==
    BooleanOfCleaned(semverClean(current), req.operator, semverClean(req.version))

\* parseVersionRequirement(requirement): a string is handed to
\* parseStringRequirement, a list of constraint objects is returned as it is,
\* a single constraint object is wrapped in a list of one element.
parseVersionRequirement(requirement) ==
    IF requirement.kind = "string" THEN parseStringRequirement(requirement.text)
    ELSE IF requirement.kind = "array" THEN requirement.items
    ELSE <<requirement.items[1]>>

-----------------------------------------------------------------------------
(* Inputs                                                                  *)

\* Longest requirement string, in comma-separated fragments, and longest array
\* of constraint objects.
MaxFragments == 3
MaxConstraints == 2

SeqsUpTo(S, n) == UNION {[1..k -> S] : k \in 0..n}

\* Detected versions: a release, a "v" prefix, a prerelease, and a text that
\* is no version.
CurrentVersions ==
    { <<"1", ".", "0", ".", "0">>,
      <<"v", "1", ".", "5", ".", "0">>,
      <<"2", ".", "0", ".", "0", "-", "a">>,
      <<"x">> }

\* Versions of the constraint objects of an array.
ArrayVersions ==
    { <<"1", ".", "0", ".", "0">>,
      <<"v", "2", ".", "0", ".", "0">>,
      <<"x">> }

\* Versions of a single constraint object: also the empty text, a version
\* of one component, a prerelease, build metadata, a line break and a
\* leading "=".
ObjectVersions ==
    ArrayVersions \cup
    { <<>>,
      <<"2">>,
      <<"2", ".", "0", ".", "0", "-", "a">>,
      <<"1", ".", "0", ".", "0", "+", "b">>,
      <<"1", ".", "0", "\n", ".", "0">>,
      <<"=", "1", ".", "0", ".", "0">> }

Constraint(operator, version) == [operator |-> operator, version |-> version]

\* Constraint objects of an array: every operator on a release, and some on
\* a "v" prefix and on a text that is no version.
ArrayConstraints ==
    {Constraint(op, <<"1", ".", "0", ".", "0">>) : op \in Operators}
    \cup {Constraint(op, <<"v", "2", ".", "0", ".", "0">>) :
            op \in {<<">", "=">>, <<"<">>, <<"^">>}}
    \cup {Constraint(op, <<"x">>) : op \in {<<">", "=">>, <<"=">>}}

ObjectConstraints == {Constraint(op, v) : op \in Operators, v \in ObjectVersions}

\* Fragments of a requirement string: with and without blanks around the
\* operator and the version, without an operator, empty, an operator alone,
\* a version that is no version, a line break inside the version.
FragmentPool ==
    { <<">", "=", "1", ".", "0", ".", "0">>,
      <<" ", "<", " ", " ", "2", ".", "0", ".", "0", " ">>,
      <<"x">>,
      <<>>,
      <<">", "=">>,
      <<">">>,
      <<"^", "1", ".", "0", ".", "0">>,
      <<"~", "\t", "v", "2", ".", "0", ".", "0">>,
      <<"<", "=", " ", "x">>,
      <<"=", " ", "1", ".", "0", "\n", ".", "0">> }

\* Largest major, minor and patch number of the versions of the range
\* specification.
MaxComponent == 1

\* Prerelease suffixes: none, and two that differ.
Prereleases == { <<>>, <<"-", "a">>, <<"-", "b">> }

VersionOf(major, minor, patch, pre) ==
    FormatNat(major) \o <<".">> \o FormatNat(minor) \o <<".">> \o FormatNat(patch) \o pre

\* Every version major.minor.patch of the bounded numbers, with and without
\* a prerelease suffix.
GridVersions ==
    {VersionOf(a, b, c, pre) : a \in 0..MaxComponent, b \in 0..MaxComponent,
                               c \in 0..MaxComponent, pre \in Prereleases}

\* Constraint versions of fewer than three components: major alone and
\* major.minor.
PartialVersions ==
    {FormatNat(a) : a \in 0..MaxComponent}
    \cup {FormatNat(a) \o <<".">> \o FormatNat(b) :
             a \in 0..MaxComponent, b \in 0..MaxComponent}

\* The example of the comment on the string shape of VersionRequirement, its
\* two fragments, and a detected version between its two bounds.
DocumentedFragments ==
    << <<">", "=", " ", "2", "0", ".", "0", ".", "0">>,
       <<" ", "<", " ", "2", "2">> >>

DocumentedExample == Join(DocumentedFragments, ",")

DocumentedCurrent == <<"2", "1", ".", "0", ".", "0">>

RangeCurrentVersions == GridVersions \cup {DocumentedCurrent}

RangeConstraints == {Constraint(op, v) : op \in Operators, v \in GridVersions}

PartialConstraints == {Constraint(op, v) : op \in Operators, v \in PartialVersions}

-----------------------------------------------------------------------------
(* checkVersion and runVerify                                              *)

\* Most binaries in config.requirements.
MaxBinaries == 2

\* Keys of config.requirements, in the order of Object.entries.
BinaryNames == <<"node", "npm", "tsc", "git">>

\* What the machine gives for one binary: whether a checker is configured
\* for its name, whether running the command throws, what parseVersion
\* returns (null, "" or a text), whether the second run of the command, for
\* the components, throws, and what parseComponents returns (null, also when
\* the checker has no parseComponents, or the components).
Environment(checker, run, version, componentsRun, components) ==
    [checker |-> checker, run |-> run, version |-> version,
     componentsRun |-> componentsRun, components |-> components]

DetectedRelease == <<"1", ".", "0", ".", "0">>

Environments ==
    { Environment(FALSE, "ok", None, "ok", None),
      Environment(TRUE, "throws", None, "ok", None),
      Environment(TRUE, "ok", None, "ok", None),
      Environment(TRUE, "ok", Some(<<>>), "ok", None),
      Environment(TRUE, "ok", Some(DetectedRelease), "ok", None),
      Environment(TRUE, "ok", Some(DetectedRelease), "ok", Some(<< <<"v8", "12.4">> >>)),
      Environment(TRUE, "ok", Some(DetectedRelease), "throws", Some(<< <<"v8", "12.4">> >>)),
      Environment(TRUE, "ok", Some(<<"x">>), "ok", None) }

\* Requirements of a config: a string the detected release satisfies, and a
\* list of which it satisfies the first constraint and fails the second.
RunRequirements ==
    { StringRequirement(<<">", "=", " ", "1", ".", "0", ".", "0">>),
      ArrayRequirement(<< Constraint(<<">", "=">>, DetectedRelease),
                          Constraint(<<"<">>, DetectedRelease) >>) }

\* The outcome of a call that may throw.
Thrown(message) == [thrown |-> TRUE, value |-> message]
Value(v) == [thrown |-> FALSE, value |-> v]

NoCheckerConfigured(binaryName) == <<"No checker configured for binary: ", binaryName>>

\* Variant: a binary without a checker gives null, not a throw.
getCurrentVersionNullWithoutChecker(binaryName, env) ==
    IF ~env.checker THEN Value(None)
    ELSE IF env.run = "throws" THEN Value(None)
    ELSE Value(env.version)

\* getCurrentVersion(binaryName): throws without a checker; null when the
\* run or parseVersion throws; else what parseVersion returns.
getCurrentVersion(binaryName, env) ==
    IF ~env.checker THEN Thrown(NoCheckerConfigured(binaryName))
    ELSE IF env.run = "throws" THEN Value(None)
    ELSE Value(env.version)

\* getComponents(binaryName): null or the components; never throws.
getComponents(binaryName, env) ==
    IF ~env.checker THEN None
    ELSE IF env.componentsRun = "throws" THEN None
    ELSE env.components

\* A VersionCheckResult; an optional field that is absent is None.
VersionCheckResult(binary, version, satisfies, components, error, failed, satisfied) ==
    [binary |-> binary, currentVersion |-> version, satisfies |-> satisfies,
     components |-> components, error |-> error,
     failedConstraints |-> failed,
     satisfiedConstraints |-> satisfied]

NotFoundMessage(binaryName) ==
    <<"Binary '", binaryName, "' not found or version could not be determined">>

\* The return of checkVersion when no version was detected.
NotFoundResult(binaryName) ==
    VersionCheckResult(binaryName, None, FALSE, None,
                       Some(NotFoundMessage(binaryName)), None, None)

\* The return of the catch of checkVersion.
ErrorResult(binaryName, message) ==
    VersionCheckResult(binaryName, None, FALSE, None, Some(message), None, None)

\* Variant: the list is attached whether or not it is empty.
NonEmptyOrEmpty(list) == Some(list)

\* ...(list.length > 0 && { list })
NonEmpty(list) == IF Len(list) > 0 THEN Some(list) ELSE None

\* Variant: the components are attached only to a satisfied result.
FoundResultComponentsWhenSatisfied(binaryName, version, requirementResult, components) ==
    VersionCheckResult(binaryName, Some(version), requirementResult.satisfies,
                       IF requirementResult.satisfies THEN components ELSE None,
                       None,
                       NonEmpty(requirementResult.failedConstraints),
                       NonEmpty(requirementResult.satisfiedConstraints))

\* The return of checkVersion for a detected version.
FoundResult(binaryName, version, requirementResult, components) ==
    VersionCheckResult(binaryName, Some(version), requirementResult.satisfies,
                       components, None,
                       NonEmpty(requirementResult.failedConstraints),
                       NonEmpty(requirementResult.satisfiedConstraints))

\* Variant: only null counts as not detected.
VersionIsNull(version) == version = None

\* !currentVersion
VersionNotDetected(version) == ~Truthy(version)

\* checkVersion(binaryName, requirement) run alone, detected being what
\* getCurrentVersion gave.
checkVersionOf(binaryName, requirement, detected, env) ==
    IF detected.thrown THEN ErrorResult(binaryName, detected.value)
    ELSE IF VersionNotDetected(detected.value) THEN NotFoundResult(binaryName)
    ELSE FoundResult(binaryName, detected.value[1],
                     satisfiesRequirement(detected.value[1], requirement),
                     getComponents(binaryName, env))

checkVersion(binaryName, requirement, env) ==
    checkVersionOf(binaryName, requirement, getCurrentVersion(binaryName, env), env)

\* A line of console.log: the status line of a result, its satisfied or
\* failed constraints, or one of its components.
Line(kind, binary, text) == [kind |-> kind, binary |-> binary, text |-> text]

StatusLine(r) ==
    Line("status", r.binary,
         << IF r.satisfies THEN "ok" ELSE "failed",
            IF Truthy(r.currentVersion) THEN r.currentVersion[1] ELSE <<"not found">>,
            IF r.error # None THEN r.error[1] ELSE <<>> >>)

ComponentLines(r) ==
    IF r.components = None THEN <<>>
    ELSE [i \in 1..Len(r.components[1]) |->
             Line("component", r.binary, r.components[1][i])]

\* The lines the forEach of runVerify prints for one result.
LinesOf(r) ==
    <<StatusLine(r)>>
    \o (IF r.satisfies /\ r.satisfiedConstraints # None
        THEN <<Line("satisfied", r.binary, r.satisfiedConstraints[1])>> ELSE <<>>)
    \o (IF r.failedConstraints # None
        THEN <<Line("failed", r.binary, r.failedConstraints[1])>> ELSE <<>>)
    \o ComponentLines(r)

-----------------------------------------------------------------------------
(* The checkers and their registry                                         *)

\* A BinaryChecker. parseVersion is the rule of the checker: a pattern
\* (an optional text, a literal text, then the group \d+\.\d+\.\d+) or the
\* reading of Client.Version from JSON. versionFlag is None when absent.
BinaryChecker(name, command, versionFlag, parseVersion) ==
    [name |-> name, command |-> command, versionFlag |-> versionFlag,
     parseVersion |-> parseVersion]

PatternRule(optional, literal) == [kind |-> "pattern", optional |-> optional, literal |-> literal]

ClientVersionRule == [kind |-> "json", optional |-> <<>>, literal |-> <<>>]

GitVersion == <<"g", "i", "t", " ", "v", "e", "r", "s", "i", "o", "n", " ">>

PythonSpace == <<"P", "y", "t", "h", "o", "n", " ">>

commonCheckers ==
    << BinaryChecker("node", "node", None, PatternRule(<<"v">>, <<>>)),
       BinaryChecker("npm", "npm", None, PatternRule(<<>>, <<>>)),
       BinaryChecker("pnpm", "pnpm", None, PatternRule(<<>>, <<>>)),
       BinaryChecker("git", "git", None, PatternRule(<<>>, GitVersion)),
       BinaryChecker("docker", "docker", Some(<<"version", "-f", "json">>), ClientVersionRule),
       BinaryChecker("python", "python", None, PatternRule(<<>>, PythonSpace)),
       BinaryChecker("python3", "python3", None, PatternRule(<<>>, PythonSpace)),
       BinaryChecker("bun", "bun", None, PatternRule(<<>>, <<>>)) >>

\* The Map of EnvChecker: its entries in insertion order, one per key.
MapHas(map, key) == \E i \in DOMAIN map : map[i].key = key

MapGet(map, key) == map[CHOOSE i \in DOMAIN map : map[i].key = key].value

\* Map.prototype.set: the value of an existing key is replaced in place, a
\* new key is appended.
MapSet(map, key, value) ==
    IF MapHas(map, key)
    THEN [i \in DOMAIN map |-> IF map[i].key = key
                                THEN [key |-> key, value |-> value] ELSE map[i]]
    ELSE Append(map, [key |-> key, value |-> value])

\* Variant: a checker whose name is registered already is not stored.
addCheckerKeepingExisting(map, checker) ==
    IF MapHas(map, checker.name) THEN map ELSE MapSet(map, checker.name, checker)

\* this.checkers.set(checker.name, checker)
addChecker(map, checker) == MapSet(map, checker.name, checker)

\* checkers.forEach((checker) => this.addChecker(checker))
RECURSIVE forEachAddChecker(_, _)
forEachAddChecker(map, list) ==
    IF list = <<>> THEN map
    ELSE forEachAddChecker(addChecker(map, Head(list)), Tail(list))

\* new EnvChecker(list): the Map starts empty.
EnvChecker(list) == forEachAddChecker(<<>>, list)

\* new EnvChecker([...commonCheckers, ...additionalCheckers])
createEnvChecker(additionalCheckers) == EnvChecker(commonCheckers \o additionalCheckers)

\* Checkers a caller adds: two under built-in names, two under a new name.
AdditionalCheckers ==
    { BinaryChecker("bun", "bunx", None, PatternRule(<<>>, <<>>)),
      BinaryChecker("node", "nodejs", None, PatternRule(<<"v">>, <<>>)),
      BinaryChecker("tsc", "tsc", None, PatternRule(<<>>, <<>>)),
      BinaryChecker("tsc", "tsgo", None, PatternRule(<<>>, <<>>)) }

MaxAdditional == 2
MaxAdded == 2

-----------------------------------------------------------------------------
(* The version rules of the built-in checkers                              *)

\* The ways \d+ matches at position i: every run of digits that starts there.
DigitRuns(s, i) == {n \in 1..(Len(s) - i + 1) : \A k \in 0..(n - 1) : IsDigit(s[i + k])}

IsDotAt(s, i) == i \in 1..Len(s) /\ s[i] = "."

\* The ways \d+\.\d+\.\d+ matches at position i: the lengths of its runs.
TripleMatches(s, i) ==
    UNION {UNION {{<<a, b, c>> : c \in IF IsDotAt(s, i + a + 1 + b)
                                       THEN DigitRuns(s, i + a + 1 + b + 1) ELSE {}} :
                  b \in IF IsDotAt(s, i + a) THEN DigitRuns(s, i + a + 1) ELSE {}} :
           a \in DigitRuns(s, i)}

\* The match a backtracking matcher finds first: each \d+ is greedy, an
\* earlier one before a later one.
GreedyFirst(M) ==
    CHOOSE m \in M : \A o \in M :
        \/ m[1] > o[1]
        \/ m[1] = o[1] /\ m[2] > o[2]
        \/ m[1] = o[1] /\ m[2] = o[2] /\ m[3] >= o[3]

TripleLength(m) == m[1] + 1 + m[2] + 1 + m[3]

\* Variant: the quantifiers are lazy, the last run is as short as can be.
GroupAtLazy(s, i) ==
    IF TripleMatches(s, i) = {} THEN None
    ELSE Some(SubSeq(s, i, i + Min({TripleLength(m) : m \in TripleMatches(s, i)}) - 1))

\* The text of the group (\d+\.\d+\.\d+) matched at position i, if it matches.
GroupAt(s, i) ==
    IF TripleMatches(s, i) = {} THEN None
    ELSE Some(SubSeq(s, i, i + TripleLength(GreedyFirst(TripleMatches(s, i))) - 1))

LiteralAt(s, i, literal) ==
    /\ i + Len(literal) - 1 <= Len(s)
    /\ SubSeq(s, i, i + Len(literal) - 1) = literal

\* The literal text, then the group.
GroupAfterLiteral(rule, s, i) ==
    IF LiteralAt(s, i, rule.literal) THEN GroupAt(s, i + Len(rule.literal)) ELSE None

\* The pattern matched at position i: the optional text is taken when it
\* is there and the rest then matches, and left out otherwise.
MatchAt(rule, s, i) ==
    IF /\ rule.optional # <<>>
       /\ LiteralAt(s, i, rule.optional)
       /\ GroupAfterLiteral(rule, s, i + Len(rule.optional)) # None
    THEN GroupAfterLiteral(rule, s, i + Len(rule.optional))
    ELSE GroupAfterLiteral(rule, s, i)

\* output.match(pattern): the positions are tried from the left.
RECURSIVE MatchFrom(_, _, _)
MatchFrom(rule, s, i) ==
    IF i > Len(s) THEN None
    ELSE IF MatchAt(rule, s, i) # None THEN MatchAt(rule, s, i)
    ELSE MatchFrom(rule, s, i + 1)

\* A value of JavaScript: null, undefined, a string, a number (its text),
\* a boolean, an array (members without keys) or an object (its members in
\* order).
JsValue(type, text, members) == [type |-> type, text |-> text, members |-> members]

Member(key, value) == [key |-> key, value |-> value]

JsNull == JsValue("null", <<>>, <<>>)

JsUndefined == JsValue("undefined", <<>>, <<>>)

JsString(text) == JsValue("string", text, <<>>)

JsNumber(text) == JsValue("number", text, <<>>)

JsArray(items) == JsValue("array", <<>>, [i \in DOMAIN items |-> Member(<<>>, items[i])])

JsObject(members) == JsValue("object", <<>>, members)

\* match?.[1] ?? null
patternParseVersion(rule, output) ==
    IF MatchFrom(rule, output, 1) = None THEN None
    ELSE Some(JsString(MatchFrom(rule, output, 1)[1]))

\* JSON.parse reads a value from position i: whether it could, the value
\* and the position after it.
JsonFail == [ok |-> FALSE, value |-> JsNull, next |-> 0]

JsonRead(value, next) == [ok |-> TRUE, value |-> value, next |-> next]

Quote == "\""

IsJsonSpace(c) == c \in {" ", "\t", "\n", "\r"}

SkipSpaces(s, i) == Min({j \in i..(Len(s) + 1) : j = Len(s) + 1 \/ ~IsJsonSpace(s[j])})

\* A string from its opening quote at i to the next quote; a control
\* character may not stand in it. (No output modelled holds a backslash, so
\* escape sequences are not read.)
ReadString(s, i) ==
    IF {j \in (i + 1)..Len(s) : s[j] = Quote} = {} THEN JsonFail
    ELSE LET close == Min({j \in (i + 1)..Len(s) : s[j] = Quote})
         IN IF \E j \in (i + 1)..(close - 1) : s[j] \in {"\t", "\n", "\r", "\\"}
            THEN JsonFail
            ELSE JsonRead(JsString(SubSeq(s, i + 1, close - 1)), close + 1)

LongestRun(s, i) == IF DigitRuns(s, i) = {} THEN 0 ELSE Max(DigitRuns(s, i))

\* A number at i: an optional minus, digits without a leading zero, an
\* optional fraction. (No output modelled holds an exponent.)
ReadNumber(s, i) ==
    LET start == IF s[i] = "-" THEN i + 1 ELSE i
        whole == LongestRun(s, start)
        point == start + whole
        fraction == IF IsDotAt(s, point) THEN LongestRun(s, point + 1) ELSE 0
        next == IF IsDotAt(s, point) THEN point + 1 + fraction ELSE point
    IN IF \/ whole = 0
          \/ whole > 1 /\ s[start] = "0"
          \/ IsDotAt(s, point) /\ fraction = 0
       THEN JsonFail
       ELSE JsonRead(JsNumber(SubSeq(s, i, next - 1)), next)

RECURSIVE ReadValue(_, _)
RECURSIVE ReadMembers(_, _, _)
RECURSIVE ReadElements(_, _, _)

\* The members of an object from position i, where a key must start.
ReadMembers(s, i, members) ==
    IF i > Len(s) \/ s[i] # Quote THEN JsonFail
    ELSE LET key == ReadString(s, i)
             colon == SkipSpaces(s, key.next)
         IN IF ~key.ok \/ colon > Len(s) \/ s[colon] # ":" THEN JsonFail
            ELSE LET value == ReadValue(s, colon + 1)
                     after == SkipSpaces(s, value.next)
                     all == Append(members, Member(key.value.text, value.value))
                 IN IF ~value.ok \/ after > Len(s) THEN JsonFail
                    ELSE IF s[after] = "}" THEN JsonRead(JsObject(all), after + 1)
                    ELSE IF s[after] = ","
                    THEN ReadMembers(s, SkipSpaces(s, after + 1), all)
                    ELSE JsonFail

\* The elements of an array from position i, where a value must start.
ReadElements(s, i, items) ==
    LET value == ReadValue(s, i)
        after == SkipSpaces(s, value.next)
        all == Append(items, Member(<<>>, value.value))
    IN IF ~value.ok \/ after > Len(s) THEN JsonFail
       ELSE IF s[after] = "]" THEN JsonRead(JsValue("array", <<>>, all), after + 1)
       ELSE IF s[after] = "," THEN ReadElements(s, after + 1, all)
       ELSE JsonFail

ReadValue(s, from) ==
    LET i == SkipSpaces(s, from)
    IN IF i > Len(s) THEN JsonFail
       ELSE IF s[i] = "{"
       THEN IF SkipSpaces(s, i + 1) <= Len(s) /\ s[SkipSpaces(s, i + 1)] = "}"
            THEN JsonRead(JsObject(<<>>), SkipSpaces(s, i + 1) + 1)
            ELSE ReadMembers(s, SkipSpaces(s, i + 1), <<>>)
       ELSE IF s[i] = "["
       THEN IF SkipSpaces(s, i + 1) <= Len(s) /\ s[SkipSpaces(s, i + 1)] = "]"
            THEN JsonRead(JsArray(<<>>), SkipSpaces(s, i + 1) + 1)
            ELSE ReadElements(s, i + 1, <<>>)
       ELSE IF s[i] = Quote THEN ReadString(s, i)
       ELSE IF s[i] = "-" \/ IsDigit(s[i]) THEN ReadNumber(s, i)
       ELSE IF LiteralAt(s, i, <<"n", "u", "l", "l">>) THEN JsonRead(JsNull, i + 4)
       ELSE IF LiteralAt(s, i, <<"t", "r", "u", "e">>)
       THEN JsonRead(JsValue("boolean", <<"t", "r", "u", "e">>, <<>>), i + 4)
       ELSE IF LiteralAt(s, i, <<"f", "a", "l", "s", "e">>)
       THEN JsonRead(JsValue("boolean", <<"f", "a", "l", "s", "e">>, <<>>), i + 5)
       ELSE JsonFail

\* JSON.parse(text): the value, or None when it throws a SyntaxError.
JSONparse(text) ==
    LET read == ReadValue(text, 1)
    IN IF read.ok /\ SkipSpaces(text, read.next) > Len(text)
       THEN Some(read.value) ELSE None

\* value[key] for the keys read here, Client and Version, which only an
\* object can hold: of two members with one key the later one counts.
PropertyOf(value, key) ==
    IF value.type = "object" /\ \E i \in DOMAIN value.members : value.members[i].key = key
    THEN value.members[Max({i \in DOMAIN value.members : value.members[i].key = key})].value
    ELSE JsUndefined

IsNullish(value) == value.type \in {"null", "undefined"}

ClientKey == <<"C", "l", "i", "e", "n", "t">>

VersionKey == <<"V", "e", "r", "s", "i", "o", "n">>

\* json.Client?.Version ?? null
ClientVersionOf(json) ==
    IF IsNullish(PropertyOf(json, ClientKey)) THEN None
    ELSE IF IsNullish(PropertyOf(PropertyOf(json, ClientKey), VersionKey)) THEN None
    ELSE Some(PropertyOf(PropertyOf(json, ClientKey), VersionKey))

\* parseVersion of docker: a SyntaxError of JSON.parse and the TypeError of
\* reading Client of null are caught.
clientParseVersion(output) ==
    IF JSONparse(output) = None THEN None
    ELSE IF JSONparse(output)[1].type = "null" THEN None
    ELSE ClientVersionOf(JSONparse(output)[1])

\* checker.parseVersion(output)
parseVersion(checker, output) ==
    IF checker.parseVersion.kind = "json" THEN clientParseVersion(output)
    ELSE patternParseVersion(checker.parseVersion, output)

\* The text docker prints for a value, members separated by gap.
RECURSIVE JsonText(_, _)
RECURSIVE MembersText(_, _, _)

MembersText(members, gap, keyed) ==
    IF members = <<>> THEN <<>>
    ELSE (IF keyed THEN <<Quote>> \o Head(members).key \o <<Quote, ":">> \o gap ELSE <<>>)
         \o JsonText(Head(members).value, gap)
         \o (IF Len(members) > 1
             THEN <<",">> \o gap \o MembersText(Tail(members), gap, keyed) ELSE <<>>)

JsonText(value, gap) ==
    IF value.type = "null" THEN <<"n", "u", "l", "l">>
    ELSE IF value.type = "string" THEN <<Quote>> \o value.text \o <<Quote>>
    ELSE IF value.type = "object"
    THEN <<"{">> \o MembersText(value.members, gap, TRUE) \o <<"}">>
    ELSE IF value.type = "array"
    THEN <<"[">> \o MembersText(value.members, gap, FALSE) \o <<"]">>
    ELSE value.text

Gaps == {<<>>, <<" ">>}

\* What docker version -f json may print: the documents of the tests and
\* others with Client or Version missing, null, of another type, repeated
\* or written in another case.
Documents ==
    { JsObject(<<Member(<<"C", "l", "i", "e", "n", "t">>, JsObject(<<Member(<<"V", "e", "r", "s", "i", "o", "n">>, JsString(<<"2", "4", ".", "0", ".", "7">>))>>)), Member(<<"S", "e", "r", "v", "e", "r">>, JsObject(<<Member(<<"V", "e", "r", "s", "i", "o", "n">>, JsString(<<"2", "5", ".", "0", ".", "1">>))>>))>>),
      JsObject(<<Member(<<"C", "l", "i", "e", "n", "t">>, JsObject(<<Member(<<"A", "p", "i", "V", "e", "r", "s", "i", "o", "n">>, JsString(<<"1", ".", "4", "3">>)), Member(<<"V", "e", "r", "s", "i", "o", "n">>, JsString(<<"2", "4", ".", "0", ".", "7">>))>>))>>),
      JsObject(<<Member(<<"C", "l", "i", "e", "n", "t">>, JsObject(<<>>))>>),
      JsObject(<<>>),
      JsObject(<<Member(<<"S", "e", "r", "v", "e", "r">>, JsObject(<<Member(<<"V", "e", "r", "s", "i", "o", "n">>, JsString(<<"2", "4", ".", "0", ".", "7">>))>>))>>),
      JsObject(<<Member(<<"C", "l", "i", "e", "n", "t">>, JsNull)>>),
      JsObject(<<Member(<<"C", "l", "i", "e", "n", "t">>, JsObject(<<Member(<<"V", "e", "r", "s", "i", "o", "n">>, JsNull)>>))>>),
      JsNull,
      JsString(<<"2", "4", ".", "0", ".", "7">>),
      JsObject(<<Member(<<"C", "l", "i", "e", "n", "t">>, JsString(<<"2", "4", ".", "0", ".", "7">>))>>),
      JsObject(<<Member(<<"C", "l", "i", "e", "n", "t">>, JsObject(<<Member(<<"V", "e", "r", "s", "i", "o", "n">>, JsNumber(<<"2", "4">>))>>))>>),
      JsArray(<<JsObject(<<Member(<<"C", "l", "i", "e", "n", "t">>, JsObject(<<Member(<<"V", "e", "r", "s", "i", "o", "n">>, JsString(<<"1", ".", "2", ".", "3">>))>>))>>)>>),
      JsObject(<<Member(<<"C", "l", "i", "e", "n", "t">>, JsObject(<<Member(<<"V", "e", "r", "s", "i", "o", "n">>, JsString(<<"1", ".", "0", ".", "0">>))>>)), Member(<<"C", "l", "i", "e", "n", "t">>, JsObject(<<Member(<<"V", "e", "r", "s", "i", "o", "n">>, JsString(<<"2", ".", "0", ".", "0">>))>>))>>),
      JsObject(<<Member(<<"C", "l", "i", "e", "n", "t">>, JsObject(<<Member(<<"V", "e", "r", "s", "i", "o", "n">>, JsString(<<"r", "c">>))>>))>>),
      JsObject(<<Member(<<"C", "l", "i", "e", "n", "t">>, JsObject(<<Member(<<"V", "e", "r", "s", "i", "o", "n">>, JsString(<<>>))>>))>>),
      JsObject(<<Member(<<"C", "l", "i", "e", "n", "t">>, JsObject(<<Member(<<"v", "e", "r", "s", "i", "o", "n">>, JsString(<<"2", "4", ".", "0", ".", "7">>))>>))>>),
      JsObject(<<Member(<<"C", "l", "i", "e", "n", "t">>, JsArray(<<JsObject(<<Member(<<"V", "e", "r", "s", "i", "o", "n">>, JsString(<<"1", ".", "2", ".", "3">>))>>)>>))>>),
      JsNumber(<<"2", "4">>) }

OutputPrefixes == { <<>>,
      <<"v">>,
      <<"g", "i", "t", " ", "v", "e", "r", "s", "i", "o", "n", " ">>,
      <<"P", "y", "t", "h", "o", "n", " ">>,
      <<"g", "i", "t", " ", "v", "e", "r", "s", "i", "o", "n", " ", "v">> }

OutputBodies ==
    { <<"1", ".", "2", ".", "3">>,
      <<"3", ".", "1", "0", ".", "1", "2">>,
      <<"1", ".", "2">>,
      <<"1", ".", "2", ".", "3", ".", "4">>,
      <<"1", ".", "2", ".", "x", " ", "3", ".", "4", ".", "5">>,
      <<>>,
      <<"1", "2", ".", ".", "3">>,
      <<"1", ".", "2", " ", "P", "y", "t", "h", "o", "n", " ", "3", ".", "4", ".", "5">> }

OutputSuffixes == { <<>>,
      <<" ", "(", "b", "u", "i", "l", "d", " ", "4", ".", "5", ".", "6", ")">> }

\* Outputs that are no JSON text and hold a version in no format, or are
\* JSON cut short or miswritten.
OtherOutputs ==
    { <<"i", "n", "v", "a", "l", "i", "d", " ", "o", "u", "t", "p", "u", "t">>,
      <<"i", "n", "v", "a", "l", "i", "d", " ", "j", "s", "o", "n">>,
      <<"{">>,
      <<"{", "\"", "C", "l", "i", "e", "n", "t", "\"", ":", "{", "\"", "V", "e", "r", "s", "i", "o", "n", "\"", ":", "\"", "2", "4", ".", "0", ".", "7", "\"", "}">>,
      <<"{", "\"", "C", "l", "i", "e", "n", "t", "\"", ":", "{", "\"", "V", "e", "r", "s", "i", "o", "n", "\"", ":", "\"", "2", "4", ".", "0", ".", "7", "\"", "}", ",", "}">>,
      <<"{", "'", "C", "l", "i", "e", "n", "t", "'", ":", "{", "'", "V", "e", "r", "s", "i", "o", "n", "'", ":", "'", "1", ".", "2", ".", "3", "'", "}", "}">>,
      <<"{", "\"", "C", "l", "i", "e", "n", "t", "\"", ":", "{", "\"", "V", "e", "r", "s", "i", "o", "n", "\"", ":", "2", "4", ".", "0", ".", "7", "}", "}">>,
      <<"D", "o", "c", "k", "e", "r", " ", "v", "e", "r", "s", "i", "o", "n", " ", "2", "4", ".", "0", ".", "7", ",", " ", "b", "u", "i", "l", "d", " ", "a", "f", "d", "d", "5", "3", "b">>,
      <<"{", "\"", "C", "l", "i", "e", "n", "t", "\"", " ", "{", "\"", "V", "e", "r", "s", "i", "o", "n", "\"", ":", "\"", "1", ".", "2", ".", "3", "\"", "}", "}">>,
      <<"{", "\"", "C", "l", "i", "e", "n", "t", "\"", ":", "{", "\"", "V", "e", "r", "s", "i", "o", "n", "\"", ":", "\"", "1", ".", "2", ".", "3", "\"", "}", "}", " ", "x">>,
      <<"[", "\"", "1", ".", "2", ".", "3", "\"", ",", "]">>,
      <<"{", "\"", "C", "l", "i", "e", "n", "t", "\"", ":", "{", "\"", "V", "e", "r", "s", "i", "o", "n", "\"", ":", "\"", "1", ".", "2", ".", "3", "}", "}">>,
      <<"n", "u", "l">> }

TextOutputs ==
    {p \o b \o x : p \in OutputPrefixes, b \in OutputBodies, x \in OutputSuffixes}
    \cup OtherOutputs

-----------------------------------------------------------------------------
(* The config                                                              *)

\* A config as loadConfig returns it is the sequence of its top-level
\* entries, in the order of Object.entries. An entry is the requirements
\* record (its entries in order), the checkers array (the names of its
\* checkers) or, in a config of the old style, the requirement of a binary.
RequirementsEntry(entries) ==
    [key |-> "requirements", kind |-> "record", entries |-> entries,
     names |-> <<>>, requirement |-> ArrayRequirement(<<>>)]

CheckersEntry(names) ==
    [key |-> "checkers", kind |-> "checkers", entries |-> <<>>,
     names |-> names, requirement |-> ArrayRequirement(<<>>)]

BinaryEntry(binaryName, req) ==
    [key |-> binaryName, kind |-> "requirement", entries |-> <<>>,
     names |-> <<>>, requirement |-> req]

RequirementOf(binaryName, req) == [binary |-> binaryName, requirement |-> req]

\* versionRequirementSchema: a string, a constraint object or an array of
\* constraint objects, the operator of each among the seven.
IsVersionRequirement(req) ==
    \/ req.kind = "string"
    \/ \A i \in DOMAIN req.items : req.items[i].operator \in Operators

\* configSchema on the value of one key: checkers is an array of checkers,
\* requirements a record of requirements; any other key is not looked at.
EntryIsValid(entry) ==
    IF entry.key = "checkers" THEN entry.kind = "checkers"
    ELSE IF entry.key = "requirements"
    THEN /\ entry.kind = "record"
         /\ \A i \in DOMAIN entry.entries :
               IsVersionRequirement(entry.entries[i].requirement)
    ELSE TRUE

\* configSchema.safeParse(rawConfig).success
safeParseSuccess(raw) == \A i \in DOMAIN raw : EntryIsValid(raw[i])

IsSchemaKey(entry) == entry.key \in {"checkers", "requirements"}

\* configSchema.safeParse(rawConfig).data: the keys the schema names; the
\* object schema drops every other key.
safeParseData(raw) == SelectSeq(raw, IsSchemaKey)

HasKey(config, key) == \E i \in DOMAIN config : config[i].key = key

ValueOf(config, key) == config[CHOOSE i \in DOMAIN config : config[i].key = key]

\* The entries of the config itself read as requirements: the requirement
\* of a binary entry, and for the checkers key the array of checkers, which
\* is evaluated for no binary as no checker has that name.
EntriesAsRequirements(config) ==
    [i \in DOMAIN config |-> RequirementOf(config[i].key, config[i].requirement)]

\* config.requirements || config
requirementsOfConfig(config) ==
    IF HasKey(config, "requirements") THEN ValueOf(config, "requirements").entries
    ELSE EntriesAsRequirements(config)

\* The names of commonCheckers.
CommonCheckerNames == {commonCheckers[i].name : i \in DOMAIN commonCheckers}

\* The names createEnvChecker registers: the built-in ones and those of
\* config.checkers.
RegisteredNames(config) ==
    CommonCheckerNames
    \cup (IF HasKey(config, "checkers")
          THEN {ValueOf(config, "checkers").names[i] :
                    i \in DOMAIN ValueOf(config, "checkers").names}
          ELSE {})

AtLeastOne == Constraint(<<">", "=">>, DetectedRelease)

MoreThanOne == Constraint(<<">">>, DetectedRelease)

\* Configs: with requirements, with checkers and requirements, with an empty
\* requirements record, of the old style with one and two binaries, with
\* checkers alone, with an operator outside the seven, with a binary entry
\* beside requirements, and with a binary no checker is registered for.
RawConfigs ==
    { << RequirementsEntry(<< RequirementOf("node", ObjectRequirement(AtLeastOne)) >>) >>,
      << CheckersEntry(<<"tsc">>),
         RequirementsEntry(<< RequirementOf("node", StringRequirement(<<">", "=", "1", ".", "0", ".", "0">>)),
                              RequirementOf("tsc", ObjectRequirement(MoreThanOne)) >>) >>,
      << RequirementsEntry(<<>>) >>,
      << BinaryEntry("node", ObjectRequirement(AtLeastOne)) >>,
      << BinaryEntry("node", ObjectRequirement(MoreThanOne)),
         BinaryEntry("npm", StringRequirement(<<">", "=", "1", ".", "0", ".", "0">>)) >>,
      << CheckersEntry(<<"tsc">>) >>,
      << RequirementsEntry(<< RequirementOf("node",
             ObjectRequirement(Constraint(<<"!", "=">>, DetectedRelease))) >>) >>,
      << RequirementsEntry(<< RequirementOf("node", ObjectRequirement(AtLeastOne)) >>),
         BinaryEntry("git", ObjectRequirement(MoreThanOne)) >>,
      << RequirementsEntry(<< RequirementOf("deno", ObjectRequirement(AtLeastOne)) >>) >> }

-----------------------------------------------------------------------------
(* State                                                                   *)

VARIABLES
    currentVersion,      \* argument of satisfiesRequirement
    requirement,         \* argument of satisfiesRequirement
    fragments,           \* the fragments a string requirement was written with
    pc,                  \* "call" before the call, "done" after it returned
    parsedRequirements,  \* what parseStringRequirement returned to the call
    result,              \* the RequirementCheckResult returned
    requirements,        \* config.requirements, as Object.entries lists it
    environment,         \* what the machine gives for each binary of requirements
    stage,               \* position of each checkVersion call
    requirementResult,   \* requirementResult of each checkVersion call
    results,             \* what each checkVersion call returned
    calls,               \* the calls checkVersion made: <<index, method>>
    output,              \* the lines printed by console.log
    reported,            \* number of results the forEach has handled
    hasFailure,          \* hasFailure of runVerify
    exitCode,            \* None while the process runs, then its exit code
    runPc,               \* position of runVerify
    steps,               \* what each checkVersion call has done, in order
    rawConfig,           \* the config as loadConfig returned it
    checkers,            \* this.checkers of an EnvChecker
    added,               \* the checkers given to the EnvChecker so far, in order
    given,               \* how many of them its constructor was given
    registryPc,          \* "new" before the constructor ran, then "constructed"
    parseChecker,        \* the checker whose parseVersion is called
    parseOutput,         \* the output it is called with
    parseDocument,       \* the value docker printed as that output, if it did
    parsed,              \* what parseVersion returned
    parsePc,             \* "call" before the call, "done" after it returned
    store,               \* the requirement values a caller holds, by reference
    heap,                \* the arrays the evaluation calls created, by identity
    log                  \* the evaluation calls made, in order

evaluatorVars == <<currentVersion, requirement, fragments, pc, parsedRequirements, result>>

runVars == <<requirements, environment, stage, requirementResult, results, calls,
             output, reported, hasFailure, exitCode, runPc, steps, rawConfig>>

registryVars == <<checkers, added, given, registryPc>>

parseVars == <<parseChecker, parseOutput, parseDocument, parsed, parsePc>>

heapVars == <<store, heap, log>>

restVars == <<registryVars, parseVars, heapVars>>

vars == <<currentVersion, requirement, fragments, pc, parsedRequirements, result,
          requirements, environment, stage, requirementResult, results, calls,
          output, reported, hasFailure, exitCode, runPc, steps, rawConfig,
          checkers, added, given, registryPc,
          parseChecker, parseOutput, parseDocument, parsed, parsePc,
          store, heap, log>>

\* No EnvChecker is being constructed.
NoRegistry ==
    /\ checkers = <<>>
    /\ added = <<>>
    /\ given = 0
    /\ registryPc = "idle"

\* No evaluation is called.
NoEvaluation ==
    /\ currentVersion = <<>>
    /\ requirement = StringRequirement(<<>>)
    /\ fragments = <<>>
    /\ pc = "idle"
    /\ parsedRequirements = <<>>
    /\ result = RequirementCheckResult(FALSE, <<>>, <<>>)

\* No parseVersion is called.
NoParse ==
    /\ parseChecker = commonCheckers[1]
    /\ parseOutput = <<>>
    /\ parseDocument = None
    /\ parsed = None
    /\ parsePc = "idle"

\* No caller holds a requirement to evaluate.
NoHeap ==
    /\ store = <<>>
    /\ heap = <<>>
    /\ log = <<>>

RestIdle == NoRegistry /\ NoParse /\ NoHeap

NoResult == RequirementCheckResult(FALSE, <<>>, <<>>)

\* No run of the CLI: only satisfiesRequirement is called.
NoRun ==
    /\ requirements = <<>>
    /\ environment = <<>>
    /\ stage = <<>>
    /\ requirementResult = <<>>
    /\ results = <<>>
    /\ calls = {}
    /\ output = <<>>
    /\ reported = 0
    /\ hasFailure = FALSE
    /\ exitCode = None
    /\ runPc = "idle"
    /\ steps = <<>>
    /\ rawConfig = <<>>

Init ==
    /\ NoRun
    /\ RestIdle
    /\ currentVersion \in CurrentVersions
    /\ \/ /\ fragments \in SeqsUpTo(FragmentPool, MaxFragments) \ {<<>>}
          /\ requirement = StringRequirement(Join(fragments, ","))
       \/ /\ fragments = <<>>
          /\ requirement \in {ArrayRequirement(reqs) :
                                 reqs \in SeqsUpTo(ArrayConstraints, MaxConstraints)}
       \/ /\ fragments = <<>>
          /\ requirement \in {ObjectRequirement(req) : req \in ObjectConstraints}
    /\ pc = "call"
    /\ parsedRequirements = <<>>
    /\ result = NoResult

\* satisfiesRequirement(currentVersion, requirement) with a string: the
\* string is parsed only once the current version has cleaned.
CallWithString ==
    /\ pc = "call"
    /\ requirement.kind = "string"
    /\ result' = satisfiesRequirement(currentVersion, requirement)
    /\ parsedRequirements' =
          IF Truthy(semverClean(currentVersion))
          THEN parseStringRequirement(requirement.text)
          ELSE parsedRequirements
    /\ pc' = "done"
    /\ UNCHANGED <<currentVersion, requirement, fragments>>
    /\ UNCHANGED <<runVars, restVars>>

\* satisfiesRequirement(currentVersion, requirement) with an array.
CallWithArray ==
    /\ pc = "call"
    /\ requirement.kind = "array"
    /\ result' = satisfiesRequirement(currentVersion, requirement)
    /\ pc' = "done"
    /\ UNCHANGED <<currentVersion, requirement, fragments, parsedRequirements>>
    /\ UNCHANGED <<runVars, restVars>>

\* satisfiesRequirement(currentVersion, requirement) with a single object.
CallWithObject ==
    /\ pc = "call"
    /\ requirement.kind = "object"
    /\ result' = satisfiesRequirement(currentVersion, requirement)
    /\ pc' = "done"
    /\ UNCHANGED <<currentVersion, requirement, fragments, parsedRequirements>>
    /\ UNCHANGED <<runVars, restVars>>

Next == CallWithString \/ CallWithArray \/ CallWithObject

Spec == Init /\ [][Next]_vars

\* The calls on one constraint over the grid of versions: a list of one
\* constraint object, a single constraint object with a version of fewer
\* than three components, and the documented requirement string.
InitRange ==
    /\ NoRun
    /\ RestIdle
    /\ currentVersion \in RangeCurrentVersions
    /\ \/ /\ fragments = <<>>
          /\ requirement \in {ArrayRequirement(<<req>>) : req \in RangeConstraints}
       \/ /\ fragments = <<>>
          /\ requirement \in {ObjectRequirement(req) : req \in PartialConstraints}
       \/ /\ fragments = DocumentedFragments
          /\ requirement = StringRequirement(DocumentedExample)
    /\ pc = "call"
    /\ parsedRequirements = <<>>
    /\ result = NoResult

SpecRange == InitRange /\ [][Next]_vars

\* A run of the CLI on a config that has been loaded and validated:
\* checkMultiple has been called on its requirements.
InitRun ==
    /\ RestIdle
    /\ currentVersion = <<>>
    /\ requirement = StringRequirement(<<>>)
    /\ fragments = <<>>
    /\ pc = "idle"
    /\ parsedRequirements = <<>>
    /\ result = NoResult
    /\ \E n \in 0..MaxBinaries :
          /\ requirements \in {entries \in [1..n -> [binary : {BinaryNames[i] : i \in 1..n},
                                                     requirement : RunRequirements]] :
                                  \A i \in 1..n : entries[i].binary = BinaryNames[i]}
          /\ environment \in [1..n -> Environments]
          /\ stage = [i \in 1..n |-> "start"]
          /\ requirementResult = [i \in 1..n |-> NoResult]
          /\ results = [i \in 1..n |-> ErrorResult(BinaryNames[i], <<>>)]
          /\ steps = [i \in 1..n |-> <<>>]
    /\ rawConfig = <<>>
    /\ calls = {}
    /\ output = <<>>
    /\ reported = 0
    /\ hasFailure = FALSE
    /\ exitCode = None
    /\ runPc = "checkMultiple"

\* Variant: a result is stored at the position of its completion, not of
\* its entry.
CheckVersionDetectedInCompletionOrder(i, detected) ==
    IF detected.thrown \/ VersionNotDetected(detected.value)
    THEN /\ results' =
               [results EXCEPT ![1 + Cardinality({j \in DOMAIN stage : stage[j] = "done"})] =
                   IF detected.thrown
                   THEN ErrorResult(requirements[i].binary, detected.value)
                   ELSE NotFoundResult(requirements[i].binary)]
         /\ stage' = [stage EXCEPT ![i] = "done"]
         /\ steps' = [steps EXCEPT ![i] = <<"getCurrentVersion">>]
         /\ UNCHANGED <<requirementResult, calls>>
    ELSE /\ requirementResult' =
               [requirementResult EXCEPT ![i] =
                   satisfiesRequirement(detected.value[1], requirements[i].requirement)]
         /\ calls' = calls \cup {<<i, "satisfiesRequirement">>, <<i, "getComponents">>}
         /\ stage' = [stage EXCEPT ![i] = "components"]
         /\ steps' = [steps EXCEPT ![i] =
                         <<"getCurrentVersion", "satisfiesRequirement", "getComponents">>]
         /\ UNCHANGED results

\* checkVersion of the i-th entry, up to the await of getComponents.
CheckVersionDetected(i, detected) ==
    IF detected.thrown
    THEN /\ results' = [results EXCEPT ![i] =
                           ErrorResult(requirements[i].binary, detected.value)]
         /\ stage' = [stage EXCEPT ![i] = "done"]
         /\ steps' = [steps EXCEPT ![i] = <<"getCurrentVersion">>]
         /\ UNCHANGED <<requirementResult, calls>>
    ELSE IF VersionNotDetected(detected.value)
    THEN /\ results' = [results EXCEPT ![i] = NotFoundResult(requirements[i].binary)]
         /\ stage' = [stage EXCEPT ![i] = "done"]
         /\ steps' = [steps EXCEPT ![i] = <<"getCurrentVersion">>]
         /\ UNCHANGED <<requirementResult, calls>>
    ELSE /\ requirementResult' =
               [requirementResult EXCEPT ![i] =
                   satisfiesRequirement(detected.value[1], requirements[i].requirement)]
         /\ calls' = calls \cup {<<i, "satisfiesRequirement">>, <<i, "getComponents">>}
         /\ stage' = [stage EXCEPT ![i] = "components"]
         /\ steps' = [steps EXCEPT ![i] =
                         <<"getCurrentVersion", "satisfiesRequirement", "getComponents">>]
         /\ UNCHANGED results

CheckVersionStart ==
    /\ runPc = "checkMultiple"
    /\ \E i \in DOMAIN requirements :
          /\ stage[i] = "start"
          /\ CheckVersionDetected(i, getCurrentVersion(requirements[i].binary,
                                                       environment[i]))
    /\ UNCHANGED <<requirements, environment, output, reported, hasFailure,
                   exitCode, runPc, rawConfig>>
    /\ UNCHANGED <<evaluatorVars, restVars>>

\* checkVersion of the i-th entry, from the components on.
CheckVersionReturn ==
    /\ runPc = "checkMultiple"
    /\ \E i \in DOMAIN requirements :
          /\ stage[i] = "components"
          /\ results' = [results EXCEPT ![i] =
                            FoundResult(requirements[i].binary,
                                        environment[i].version[1],
                                        requirementResult[i],
                                        getComponents(requirements[i].binary,
                                                      environment[i]))]
          /\ stage' = [stage EXCEPT ![i] = "done"]
    /\ UNCHANGED <<requirements, environment, requirementResult, calls, output,
                   reported, hasFailure, exitCode, runPc, steps, rawConfig>>
    /\ UNCHANGED <<evaluatorVars, restVars>>

\* Promise.all has every result: let hasFailure = false, and the forEach.
AwaitCheckMultiple ==
    /\ runPc = "checkMultiple"
    /\ \A i \in DOMAIN requirements : stage[i] = "done"
    /\ hasFailure' = FALSE
    /\ runPc' = "forEach"
    /\ UNCHANGED <<requirements, environment, stage, requirementResult, results,
                   calls, output, reported, exitCode, steps, rawConfig>>
    /\ UNCHANGED <<evaluatorVars, restVars>>

\* Variant: the process exits inside the forEach, at the first result that
\* is not satisfied.
ReportResultExitingAtFailure ==
    /\ runPc = "forEach"
    /\ reported < Len(results)
    /\ output' = output \o LinesOf(results[reported + 1])
    /\ hasFailure' = (hasFailure \/ ~results[reported + 1].satisfies)
    /\ reported' = reported + 1
    /\ exitCode' = IF ~results[reported + 1].satisfies THEN Some(1) ELSE exitCode
    /\ runPc' = IF ~results[reported + 1].satisfies THEN "exited" ELSE runPc
    /\ UNCHANGED <<requirements, environment, stage, requirementResult, results, calls,
                   steps, rawConfig>>
    /\ UNCHANGED <<evaluatorVars, restVars>>

\* One call of the callback of results.forEach.
ReportResult ==
    /\ runPc = "forEach"
    /\ reported < Len(results)
    /\ output' = output \o LinesOf(results[reported + 1])
    /\ hasFailure' = (hasFailure \/ ~results[reported + 1].satisfies)
    /\ reported' = reported + 1
    /\ UNCHANGED <<requirements, environment, stage, requirementResult, results,
                   calls, exitCode, runPc, steps, rawConfig>>
    /\ UNCHANGED <<evaluatorVars, restVars>>

\* if (hasFailure) process.exit(1)
ExitWithFailure ==
    /\ runPc = "forEach"
    /\ reported = Len(results)
    /\ hasFailure
    /\ exitCode' = Some(1)
    /\ runPc' = "exited"
    /\ UNCHANGED <<requirements, environment, stage, requirementResult, results,
                   calls, output, reported, hasFailure, steps, rawConfig>>
    /\ UNCHANGED <<evaluatorVars, restVars>>

\* runVerify returns and the process ends with exit code 0.
EndOfRun ==
    /\ runPc = "forEach"
    /\ reported = Len(results)
    /\ ~hasFailure
    /\ exitCode' = Some(0)
    /\ runPc' = "exited"
    /\ UNCHANGED <<requirements, environment, stage, requirementResult, results,
                   calls, output, reported, hasFailure, steps, rawConfig>>
    /\ UNCHANGED <<evaluatorVars, restVars>>

NextRun ==
    \/ CheckVersionStart
    \/ CheckVersionReturn
    \/ AwaitCheckMultiple
    \/ ReportResult
    \/ ExitWithFailure
    \/ EndOfRun

SpecRun == InitRun /\ [][NextRun]_vars

\* A run of the CLI from the config loadConfig returned.
InitConfig ==
    /\ RestIdle
    /\ currentVersion = <<>>
    /\ requirement = StringRequirement(<<>>)
    /\ fragments = <<>>
    /\ pc = "idle"
    /\ parsedRequirements = <<>>
    /\ result = NoResult
    /\ rawConfig \in RawConfigs
    /\ requirements = <<>>
    /\ environment = <<>>
    /\ stage = <<>>
    /\ requirementResult = <<>>
    /\ results = <<>>
    /\ steps = <<>>
    /\ calls = {}
    /\ output = <<>>
    /\ reported = 0
    /\ hasFailure = FALSE
    /\ exitCode = None
    /\ runPc = "loadConfig"

\* checker.checkMultiple(requirements) is called with reqs, registered
\* being the names createEnvChecker registered; the machine gives a checker
\* for exactly those names.
StartCheckMultiple(reqs, registered) ==
    /\ requirements' = reqs
    /\ environment' \in {envs \in [DOMAIN reqs -> Environments] :
                            \A i \in DOMAIN reqs :
                                envs[i].checker = (reqs[i].binary \in registered)}
    /\ stage' = [i \in DOMAIN reqs |-> "start"]
    /\ requirementResult' = [i \in DOMAIN reqs |-> NoResult]
    /\ results' = [i \in DOMAIN reqs |-> ErrorResult(reqs[i].binary, <<>>)]
    /\ steps' = [i \in DOMAIN reqs |-> <<>>]
    /\ runPc' = "checkMultiple"

\* The config passes the schema: the checker is created and checkMultiple
\* is called on config.requirements || config.
ValidateConfig ==
    /\ runPc = "loadConfig"
    /\ safeParseSuccess(rawConfig)
    /\ StartCheckMultiple(requirementsOfConfig(safeParseData(rawConfig)),
                          RegisteredNames(safeParseData(rawConfig)))
    /\ UNCHANGED <<calls, output, reported, hasFailure, exitCode, rawConfig>>
    /\ UNCHANGED <<evaluatorVars, restVars>>

\* The config does not pass the schema: process.exit(1).
InvalidConfigExit ==
    /\ runPc = "loadConfig"
    /\ ~safeParseSuccess(rawConfig)
    /\ exitCode' = Some(1)
    /\ runPc' = "exited"
    /\ UNCHANGED <<requirements, environment, stage, requirementResult, results,
                   calls, output, reported, hasFailure, steps, rawConfig>>
    /\ UNCHANGED <<evaluatorVars, restVars>>

NextConfig ==
    \/ ValidateConfig
    \/ InvalidConfigExit
    \/ CheckVersionStart
    \/ CheckVersionReturn
    \/ AwaitCheckMultiple
    \/ ReportResult
    \/ ExitWithFailure
    \/ EndOfRun

SpecConfig == InitConfig /\ [][NextConfig]_vars

\* The life of one EnvChecker: constructed directly or by createEnvChecker,
\* then given checkers with addChecker.
InitRegistry ==
    /\ NoEvaluation
    /\ NoRun
    /\ NoParse
    /\ NoHeap
    /\ checkers = <<>>
    /\ added = <<>>
    /\ given = 0
    /\ registryPc = "new"

\* new EnvChecker(list), the list empty by default.
Construct ==
    /\ registryPc = "new"
    /\ \E list \in SeqsUpTo(AdditionalCheckers, MaxAdditional) :
          /\ checkers' = EnvChecker(list)
          /\ added' = list
          /\ given' = Len(list)
    /\ registryPc' = "constructed"
    /\ UNCHANGED <<evaluatorVars, runVars, parseVars, heapVars>>

\* createEnvChecker(additionalCheckers)
CreateEnvChecker ==
    /\ registryPc = "new"
    /\ \E additionalCheckers \in SeqsUpTo(AdditionalCheckers, MaxAdditional) :
          /\ checkers' = createEnvChecker(additionalCheckers)
          /\ added' = commonCheckers \o additionalCheckers
          /\ given' = Len(commonCheckers) + Len(additionalCheckers)
    /\ registryPc' = "constructed"
    /\ UNCHANGED <<evaluatorVars, runVars, parseVars, heapVars>>

\* checker.addChecker(c) on the constructed EnvChecker.
AddChecker ==
    /\ registryPc = "constructed"
    /\ Len(added) - given < MaxAdded
    /\ \E c \in AdditionalCheckers :
          /\ checkers' = addChecker(checkers, c)
          /\ added' = Append(added, c)
    /\ UNCHANGED <<given, registryPc>>
    /\ UNCHANGED <<evaluatorVars, runVars, parseVars, heapVars>>

NextRegistry == Construct \/ CreateEnvChecker \/ AddChecker

SpecRegistry == InitRegistry /\ [][NextRegistry]_vars

\* A call of the version rule of a built-in checker on an output: a text,
\* or what docker printed for a document.
InitParse ==
    /\ NoEvaluation
    /\ NoRun
    /\ NoRegistry
    /\ NoHeap
    /\ parseChecker \in {commonCheckers[i] : i \in DOMAIN commonCheckers}
    /\ \/ /\ parseDocument = None
          /\ parseOutput \in TextOutputs
       \/ \E document \in Documents, gap \in Gaps :
             /\ parseDocument = Some(document)
             /\ parseOutput = JsonText(document, gap)
    /\ parsed = None
    /\ parsePc = "call"

\* parseVersion of a checker with a pattern.
ParseWithPattern ==
    /\ parsePc = "call"
    /\ parseChecker.parseVersion.kind = "pattern"
    /\ parsed' = parseVersion(parseChecker, parseOutput)
    /\ parsePc' = "done"
    /\ UNCHANGED <<parseChecker, parseOutput, parseDocument>>
    /\ UNCHANGED <<evaluatorVars, runVars, registryVars, heapVars>>

\* parseVersion of docker.
ParseClientVersion ==
    /\ parsePc = "call"
    /\ parseChecker.parseVersion.kind = "json"
    /\ parsed' = parseVersion(parseChecker, parseOutput)
    /\ parsePc' = "done"
    /\ UNCHANGED <<parseChecker, parseOutput, parseDocument>>
    /\ UNCHANGED <<evaluatorVars, runVars, registryVars, heapVars>>

NextParse == ParseWithPattern \/ ParseClientVersion

SpecParse == InitParse /\ [][NextParse]_vars

\* Requirements a caller holds: a string, a list with a constraint that
\* 1.0.0 meets and one it fails, an object with a version that is none, and
\* an object with a release.
HeldRequirements ==
    { StringRequirement(<<">", "=", "1", ".", "0", ".", "0", ",", "<", "2", ".", "0", ".", "0">>),
      ArrayRequirement(<< Constraint(<<">", "=">>, <<"1", ".", "0", ".", "0">>),
                          Constraint(<<"<">>, <<"1", ".", "0", ".", "0">>) >>),
      ObjectRequirement(Constraint(<<"^">>, <<"x">>)),
      ObjectRequirement(Constraint(<<">", "=">>, <<"2", ".", "0", ".", "0">>)) }

HeldVersions == { <<"1", ".", "0", ".", "0">>, <<"2", ".", "0", ".", "0">>, <<"x">> }

MaxHeld == 2
MaxCalls == 3

\* Variant: the two lists are fields of the EnvChecker, one array each.
AllocateInInstance(heapNow, slot) == slot

\* const failedConstraints: string[] = [] and the array literals of the
\* early returns: an array literal creates a new array, whichever
\* declaration (slot) it initialises.
Allocate(heapNow, slot) == Len(heapNow) + 1

\* The content of the array id becomes content.
Store(heapNow, id, content) ==
    IF id \in DOMAIN heapNow THEN [heapNow EXCEPT ![id] = content]
    ELSE Append(heapNow, content)

\* The heap after a call created its two lists and pushed the diagnostics
\* of evaluated onto them.
HeapAfterCall(heapNow, evaluated) ==
    Store(Store(Store(heapNow, Allocate(heapNow, 1), <<>>),
                Allocate(Store(heapNow, Allocate(heapNow, 1), <<>>), 2),
                evaluated.satisfiedConstraints),
          Allocate(heapNow, 1), evaluated.failedConstraints)

\* A caller holds MaxHeld requirements and has called nothing yet.
InitHeap ==
    /\ NoEvaluation
    /\ NoRun
    /\ NoRegistry
    /\ NoParse
    /\ store \in [1..MaxHeld -> HeldRequirements]
    /\ heap = <<>>
    /\ log = <<>>

\* satisfiesRequirement(current, store[reference]): the call reads its
\* arguments, creates its lists and returns them; it assigns to no property
\* of the requirement and to no field of the EnvChecker.
Evaluate ==
    /\ Len(log) < MaxCalls
    /\ \E current \in HeldVersions, reference \in DOMAIN store :
          /\ heap' = HeapAfterCall(heap, satisfiesRequirement(current, store[reference]))
          /\ log' = Append(log,
                 [currentVersion |-> current,
                  requirement |-> reference,
                  given |-> store[reference],
                  satisfies |-> satisfiesRequirement(current, store[reference]).satisfies,
                  failedConstraints |-> Allocate(heap, 1),
                  satisfiedConstraints |-> Allocate(Store(heap, Allocate(heap, 1), <<>>), 2),
                  returned |-> satisfiesRequirement(current, store[reference])])
    /\ UNCHANGED store
    /\ UNCHANGED <<evaluatorVars, runVars, registryVars, parseVars>>

NextHeap == Evaluate

SpecHeap == InitHeap /\ [][NextHeap]_vars

-----------------------------------------------------------------------------
(* Vocabulary of the properties                                            *)

Returned == pc = "done"

CurrentIsValid == Truthy(semverClean(currentVersion))

\* The constraint list the call iterated: the parsed string, the array, or
\* the single object.
Normalized ==
    IF requirement.kind = "string" THEN parsedRequirements ELSE requirement.items

RECURSIVE Concat(_)
Concat(seqs) == IF Len(seqs) = 0 THEN <<>> ELSE seqs[1] \o Concat(Tail(seqs))

RemoveAt(seq, i) == SubSeq(seq, 1, i - 1) \o SubSeq(seq, i + 1, Len(seq))

InsertAt(seq, i, e) == SubSeq(seq, 1, i - 1) \o <<e>> \o SubSeq(seq, i, Len(seq))

\* The evaluation of a list of constraint objects on the current version.
OfList(reqs) == satisfiesRequirement(currentVersion, ArrayRequirement(reqs))

-----------------------------------------------------------------------------
(* C1: satisfies is true if and only if failedConstraints is empty, in     *)
(* every result satisfiesRequirement returns, whatever the current version *)
(* and the shape of the requirement, and in the catch-all result.          *)

C1_SatisfiesIffNoFailure ==
    /\ Returned => (result.satisfies <=> Len(result.failedConstraints) = 0)
    /\ CatchAllResult.satisfies <=> Len(CatchAllResult.failedConstraints) = 0

\* A single object that fails, and so a result of the single-object path
\* with satisfies false and one failure.
C1_Witness ==
    /\ Returned
    /\ requirement.kind = "object"
    /\ CurrentIsValid
    /\ Truthy(semverClean(requirement.items[1].version))
    /\ ~result.satisfies
    /\ Len(result.failedConstraints) = 1

(* C2: with a current version that cleans, every constraint of the         *)
(* normalized list is pushed to exactly one of the two lists, so the       *)
(* lengths of the lists add up to the number of constraints; a failing     *)
(* constraint does not stop the classification of the later ones.          *)

C2_OneEntryPerConstraint ==
    (Returned /\ CurrentIsValid) =>
        Len(result.satisfiedConstraints) + Len(result.failedConstraints)
            = Len(Normalized)

\* A first constraint that fails followed by one that is satisfied.
C2_Witness ==
    /\ Returned
    /\ CurrentIsValid
    /\ requirement.kind = "array"
    /\ Len(requirement.items) = 2
    /\ ~OfList(<<requirement.items[1]>>).satisfies
    /\ OfList(<<requirement.items[2]>>).satisfies
    /\ Len(result.satisfiedConstraints) = 1
    /\ Len(result.failedConstraints) = 1

(* C3: a current version that fails cleaning gives exactly satisfies =     *)
(* false, failedConstraints = ["Invalid current version format"] and       *)
(* satisfiedConstraints = [], for every requirement; no constraint is      *)
(* processed (a string requirement is not even parsed).                    *)

C3_InvalidCurrentVersion ==
    (Returned /\ ~CurrentIsValid) =>
        /\ result.satisfies = FALSE
        /\ result.failedConstraints = << <<"Invalid current version format">> >>
        /\ result.satisfiedConstraints = <<>>
        /\ parsedRequirements = <<>>

\* An invalid current version against an array of two constraints, one of
\* them invalid itself.
C3_Witness ==
    /\ Returned
    /\ ~CurrentIsValid
    /\ requirement.kind = "array"
    /\ Len(requirement.items) = 2
    /\ \E i \in 1..2 : ~Truthy(semverClean(requirement.items[i].version))

(* C4: with a valid current version, a constraint whose version fails      *)
(* cleaning adds exactly "Invalid version format: " followed by the        *)
(* operator and the raw version text to failedConstraints, at its input    *)
(* position among the failures, and the other constraints are classified   *)
(* as they are without it.                                                 *)

C4_InvalidConstraintVersion ==
    (Returned /\ CurrentIsValid) =>
        \A i \in 1..Len(Normalized) :
            ~Truthy(semverClean(Normalized[i].version)) =>
                /\ result.satisfiedConstraints =
                      OfList(RemoveAt(Normalized, i)).satisfiedConstraints
                /\ result.failedConstraints =
                      InsertAt(OfList(RemoveAt(Normalized, i)).failedConstraints,
                               Len(OfList(SubSeq(Normalized, 1, i - 1)).failedConstraints) + 1,
                               <<"Invalid version format: ">>
                                   \o Normalized[i].operator \o Normalized[i].version)

\* A constraint that fails the range test followed by an invalid one: the
\* diagnostic is the second failure.
C4_Witness ==
    /\ Returned
    /\ CurrentIsValid
    /\ requirement.kind = "array"
    /\ Len(requirement.items) = 2
    /\ Truthy(semverClean(requirement.items[1].version))
    /\ ~Truthy(semverClean(requirement.items[2].version))
    /\ Len(result.failedConstraints) = 2
    /\ result.failedConstraints[2][1] = "Invalid version format: "

(* C5: both result lists are in input order: satisfiedConstraints is the   *)
(* concatenation, constraint by constraint in input order, of what each    *)
(* constraint alone contributes to the satisfied list, and                 *)
(* failedConstraints the same for the failed list.                         *)

C5_ListsInInputOrder ==
    (Returned /\ CurrentIsValid) =>
        /\ result.satisfiedConstraints =
              Concat([i \in 1..Len(Normalized) |->
                         OfList(<<Normalized[i]>>).satisfiedConstraints])
        /\ result.failedConstraints =
              Concat([i \in 1..Len(Normalized) |->
                         OfList(<<Normalized[i]>>).failedConstraints])

\* Two constraints with different descriptions in the same list.
C5_Witness ==
    /\ Returned
    /\ CurrentIsValid
    /\ Len(Normalized) = 2
    /\ \/ /\ Len(result.failedConstraints) = 2
          /\ result.failedConstraints[1] # result.failedConstraints[2]
       \/ /\ Len(result.satisfiedConstraints) = 2
          /\ result.satisfiedConstraints[1] # result.satisfiedConstraints[2]

\* A fragment without an operator: empty after trimming, or beginning with
\* a character that opens no operator.
NoOperator(fragment) ==
    \/ Trim(fragment) = <<>>
    \/ Trim(fragment)[1] \notin {">", "<", "=", "^", "~"}

(* C6: with a valid current version, a requirement that normalizes to the  *)
(* empty constraint list - the empty array, the empty string, a string     *)
(* none of whose fragments has an operator - gives satisfies = true and    *)
(* two empty lists.                                                        *)

C6_EmptyListIsSatisfied ==
    (Returned /\ CurrentIsValid) =>
        /\ (requirement.kind = "string"
               /\ \A i \in 1..Len(fragments) : NoOperator(fragments[i]))
              => Normalized = <<>>
        /\ Normalized = <<>> =>
              /\ result.satisfies = TRUE
              /\ result.satisfiedConstraints = <<>>
              /\ result.failedConstraints = <<>>

\* A string of two fragments, neither with an operator.
C6_Witness ==
    /\ Returned
    /\ CurrentIsValid
    /\ requirement.kind = "string"
    /\ Len(fragments) = 2
    /\ \A i \in 1..2 : NoOperator(fragments[i]) /\ Len(fragments[i]) > 0
    /\ result.satisfies

\* The fragment, trimmed, matches the grammar ^(operator)\s*(version)$.
FragmentMatches(fragment) == Len(MatchFragment(Trim(fragment))) > 0

ParsedFromString == Returned /\ CurrentIsValid /\ requirement.kind = "string"

(* C7: parseStringRequirement returns one constraint per fragment that     *)
(* matches the grammar, in the order of the fragments: the list is the     *)
(* concatenation of what each fragment gives alone, and it is the list     *)
(* parsed from the string with the non-matching fragments left out.        *)

C7_OneConstraintPerMatchingFragment ==
    ParsedFromString =>
        /\ \A i \in 1..Len(fragments) :
              Len(parseStringRequirement(fragments[i]))
                  = IF FragmentMatches(fragments[i]) THEN 1 ELSE 0
        /\ parsedRequirements =
              Concat([i \in 1..Len(fragments) |-> parseStringRequirement(fragments[i])])
        /\ parsedRequirements =
              parseStringRequirement(Join(SelectSeq(fragments, FragmentMatches), ","))

\* Three fragments, the middle one malformed, the outer two parsed to
\* different constraints.
C7_Witness ==
    /\ ParsedFromString
    /\ Len(fragments) = 3
    /\ FragmentMatches(fragments[1])
    /\ ~FragmentMatches(fragments[2])
    /\ FragmentMatches(fragments[3])
    /\ Len(parsedRequirements) = 2
    /\ parsedRequirements[1] # parsedRequirements[2]

(* C8: two-character operators take precedence over their one-character    *)
(* prefixes: when every fragment of the string, trimmed, begins with >=     *)
(* (with <=), every constraint parsed has the operator >= (<=).             *)

C8_TwoCharacterOperatorsFirst ==
    ParsedFromString =>
        \A op \in {<<">", "=">>, <<"<", "=">>} :
            (\A i \in 1..Len(fragments) : StartsWith(Trim(fragments[i]), op)) =>
                \A j \in 1..Len(parsedRequirements) :
                    parsedRequirements[j].operator = op

(* C9: every constraint parseStringRequirement returns has an operator of  *)
(* the closed set and a non-empty version that neither begins nor ends     *)
(* with white space.                                                       *)

C9_OperatorAndTrimmedVersion ==
    ParsedFromString =>
        \A j \in 1..Len(parsedRequirements) :
            /\ parsedRequirements[j].operator
                  \in { <<"=">>, <<">", "=">>, <<"<", "=">>, <<">">>, <<"<">>,
                        <<"^">>, <<"~">> }
            /\ Len(parsedRequirements[j].version) > 0
            /\ ~IsSpace(parsedRequirements[j].version[1])
            /\ ~IsSpace(parsedRequirements[j].version[Len(parsedRequirements[j].version)])

\* A fragment with blanks before the operator, between operator and
\* version, and after the version, parsed to a constraint.
C9_Witness ==
    /\ ParsedFromString
    /\ Len(fragments) = 1
    /\ Len(fragments[1]) > 4
    /\ IsSpace(fragments[1][1])
    /\ IsSpace(fragments[1][3])
    /\ IsSpace(fragments[1][Len(fragments[1])])
    /\ Len(parsedRequirements) = 1

\* "operator version"
SpacedText(req) == req.operator \o <<" ">> \o req.version

\* A version text without comma and without white space at either end.
IsPlain(version) ==
    /\ \A i \in 1..Len(version) : version[i] # ","
    /\ Len(version) > 0 => ~IsSpace(version[1]) /\ ~IsSpace(version[Len(version)])

\* The single object, the array of it and the string of it agree.
ShapesAgree ==
    /\ result = OfList(requirement.items)
    /\ result = satisfiesRequirement(currentVersion,
                     StringRequirement(SpacedText(requirement.items[1])))

(* C10, as claimed: for every current version and every constraint whose   *)
(* version has no comma and no surrounding white space, the single object, *)
(* the one-element array and the string "operator version" give the same   *)
(* result.                                                                 *)

C10_ShapesAgree ==
    (Returned /\ requirement.kind = "object"
              /\ IsPlain(requirement.items[1].version))
        => ShapesAgree

(* C10, amended: the same for every constraint whose version is not empty  *)
(* and has no comma, no line terminator and no surrounding white space.    *)

C10_ShapesAgreeOnNonEmptyLine ==
    (Returned /\ requirement.kind = "object"
              /\ IsPlain(requirement.items[1].version)
              /\ Len(requirement.items[1].version) > 0
              /\ \A i \in 1..Len(requirement.items[1].version) :
                    ~IsLineTerminator(requirement.items[1].version[i]))
        => ShapesAgree

\* A single object that is satisfied and reported in satisfiedConstraints.
C10_Witness ==
    /\ Returned
    /\ requirement.kind = "object"
    /\ CurrentIsValid
    /\ IsPlain(requirement.items[1].version)
    /\ Len(requirement.items[1].version) > 0
    /\ result.satisfies
    /\ Len(result.satisfiedConstraints) = 1

-----------------------------------------------------------------------------
(* C11: normalizing a list of constraint objects returns the same          *)
(* constraints in the same order, so normalizing twice is normalizing      *)
(* once; a single constraint object normalizes to the list of that one     *)
(* object; and the evaluation of a list or of a single object is the       *)
(* evaluation, constraint by constraint, of its normalized list.           *)

-----------------------------------------------------------------------------
(* C12: satisfiesRequirement never throws to its caller: for every current *)
(* version and every requirement of the three shapes the call returns a    *)
(* RequirementCheckResult, and every error outcome is in that value: an    *)
(* invalid current version and every invalid constraint version as a       *)
(* diagnostic in failedConstraints with satisfies false, an internal fault *)
(* as the catch-all result.                                                *)

Elements(seq) == {seq[i] : i \in DOMAIN seq}

IsRequirementCheckResult(r) ==
    /\ DOMAIN r = {"satisfies", "failedConstraints", "satisfiedConstraints"}
    /\ r.satisfies \in BOOLEAN
    /\ DOMAIN r.failedConstraints = 1..Len(r.failedConstraints)
    /\ DOMAIN r.satisfiedConstraints = 1..Len(r.satisfiedConstraints)
    /\ \A e \in Elements(r.failedConstraints) \cup Elements(r.satisfiedConstraints) :
          Len(e) > 0

C12_EveryOutcomeIsAValue ==
    Returned =>
        /\ IsRequirementCheckResult(result)
        /\ ~CurrentIsValid =>
              /\ ~result.satisfies
              /\ InvalidCurrentVersionFormat \in Elements(result.failedConstraints)
        /\ CurrentIsValid =>
              \A i \in DOMAIN Normalized :
                  ~Truthy(semverClean(Normalized[i].version)) =>
                      /\ ~result.satisfies
                      /\ InvalidVersionFormat(Normalized[i])
                             \in Elements(result.failedConstraints)
        /\ BodyThrows(currentVersion, requirement) => result = CatchAllResult

\* A string requirement with a fragment whose version is no version and a
\* fragment that is satisfied has returned.
C12_Witness ==
    /\ Returned
    /\ CurrentIsValid
    /\ requirement.kind = "string"
    /\ \E i \in DOMAIN Normalized : ~Truthy(semverClean(Normalized[i].version))
    /\ Len(result.satisfiedConstraints) > 0
    /\ IsRequirementCheckResult(result)

-----------------------------------------------------------------------------
(* C13: the catch-all result is never returned for a well-formed input: no *)
(* current version and no requirement whose operators are among the seven  *)
(* and whose versions are strings, valid or not, gives satisfies false     *)
(* with the one diagnostic "Error processing version requirement".         *)

-----------------------------------------------------------------------------
(* C14: a constraint whose version cleans contributes, to one of the two   *)
(* lists, exactly its operator followed by the cleaned version with no     *)
(* separator, never the version as written; only the diagnostic of an      *)
(* invalid version carries the text as written.                            *)

\* The entry a constraint contributes.
ExpectedEntry(req) ==
    IF Truthy(semverClean(req.version))
    THEN req.operator \o semverClean(req.version)[1]
    ELSE InvalidVersionFormat(req)

Count(e, seq) == Cardinality({i \in DOMAIN seq : seq[i] = e})

C14_EntryIsOperatorAndCleanedVersion ==
    (Returned /\ CurrentIsValid) =>
        \A e \in Elements(result.failedConstraints)
                  \cup Elements(result.satisfiedConstraints)
                  \cup {ExpectedEntry(Normalized[i]) : i \in DOMAIN Normalized} :
            Count(e, result.failedConstraints) + Count(e, result.satisfiedConstraints)
              = Cardinality({i \in DOMAIN Normalized : ExpectedEntry(Normalized[i]) = e})

\* A constraint written with a "v" prefix has been satisfied and is listed
\* without the prefix.
C14_Witness ==
    /\ Returned
    /\ CurrentIsValid
    /\ \E i \in DOMAIN Normalized :
          /\ Truthy(semverClean(Normalized[i].version))
          /\ semverClean(Normalized[i].version)[1] # Normalized[i].version
          /\ ExpectedEntry(Normalized[i]) \in Elements(result.satisfiedConstraints)
          /\ Normalized[i].operator \o Normalized[i].version
                \notin Elements(result.satisfiedConstraints)

-----------------------------------------------------------------------------
(* Vocabulary of the range properties                                      *)

\* The only constraint of the requirement, when it has exactly one.
TheConstraint == Normalized[1]

HasOneConstraint == Len(Normalized) = 1

ConstraintIsValid == Truthy(semverClean(TheConstraint.version))

\* The parsed current version and the parsed version of the constraint.
Current == ParseSemVer(semverClean(currentVersion)[1])[1]

Required == ParseSemVer(semverClean(TheConstraint.version)[1])[1]

IsRelease(v) == Len(v.prerelease) = 0

\* The constraint is listed as satisfied.
Satisfied ==
    /\ result.satisfies
    /\ result.satisfiedConstraints = <<ExpectedEntry(TheConstraint)>>
    /\ result.failedConstraints = <<>>

\* The constraint is listed as failed, under its range text.
Failed ==
    /\ ~result.satisfies
    /\ result.failedConstraints = <<ExpectedEntry(TheConstraint)>>
    /\ result.satisfiedConstraints = <<>>

\* Semantic-version precedence, written out: major, minor, patch, then the
\* prerelease, a prerelease before its release. The prerelease suffixes of
\* the grid are single letters.
PrereleaseRank(v) ==
    IF IsRelease(v) THEN 26 ELSE CharCode(v.prerelease[1][1]) - CharCode("a")

Precedes(v, w) ==
    \/ v.major < w.major
    \/ v.major = w.major /\ v.minor < w.minor
    \/ v.major = w.major /\ v.minor = w.minor /\ v.patch < w.patch
    \/ /\ v.major = w.major /\ v.minor = w.minor /\ v.patch = w.patch
       /\ PrereleaseRank(v) < PrereleaseRank(w)

InRelation(v, op, w) ==
    CASE op = <<">">>      -> Precedes(w, v)
      [] op = <<">", "=">> -> ~Precedes(v, w)
      [] op = <<"<">>      -> Precedes(v, w)
      [] op = <<"<", "=">> -> ~Precedes(w, v)

OrderingOperators == { <<">">>, <<">", "=">>, <<"<">>, <<"<", "=">> }

\* A call on one valid constraint of a list has returned for a valid
\* current version of the grid.
RangeCase ==
    /\ Returned
    /\ requirement.kind = "array"
    /\ currentVersion \in GridVersions
    /\ HasOneConstraint
    /\ ConstraintIsValid

-----------------------------------------------------------------------------
(* C15: for the operators >=, <=, > and <, and every pair of valid         *)
(* versions with or without a prerelease suffix, the constraint is         *)
(* satisfied exactly when the current version stands in that relation to   *)
(* the constraint version under semantic-version precedence; so a          *)
(* prerelease of a higher major.minor.patch satisfies >= a lower release.  *)

C15_OrderingByPrecedence ==
    (RangeCase /\ TheConstraint.operator \in OrderingOperators) =>
        /\ Satisfied \/ Failed
        /\ Satisfied <=> InRelation(Current, TheConstraint.operator, Required)

-----------------------------------------------------------------------------
(* C16: for release versions, ^M.m.p is satisfied by a.b.c exactly when    *)
(* a.b.c >= M.m.p and the leftmost non-zero component of M.m.p is          *)
(* unchanged: a = M when M > 0; a = 0 and b = m when M = 0 and m > 0;      *)
(* a = b = 0 and c = p when M = m = 0.                                     *)

LeftmostNonZeroUnchanged(v, w) ==
    IF w.major > 0 THEN v.major = w.major
    ELSE IF w.minor > 0 THEN v.major = 0 /\ v.minor = w.minor
    ELSE v.major = 0 /\ v.minor = 0 /\ v.patch = w.patch

-----------------------------------------------------------------------------
(* C17: ~M.m.p is satisfied by the release a.b.c exactly when a = M, b = m *)
(* and c >= p; and a constraint ~M.m, minor being the most specific        *)
(* component given, is evaluated as a range and satisfied by every a.b.c   *)
(* with a = M and b = m.                                                   *)

\* The numbers of a version text of two components, major.minor.
MajorOf(version) == ParseNat(Split(version, ".")[1])

MinorOf(version) == ParseNat(Split(version, ".")[2])

IsMajorMinor(version) ==
    version \in PartialVersions /\ Len(Split(version, ".")) = 2

TildePatchLevel ==
    (/\ RangeCase
     /\ TheConstraint.operator = <<"~">>
     /\ IsRelease(Current)
     /\ IsRelease(Required)) =>
        /\ Satisfied \/ Failed
        /\ Satisfied <=> /\ Current.major = Required.major
                          /\ Current.minor = Required.minor
                          /\ Current.patch >= Required.patch

TildeMinorLevel ==
    (/\ Returned
     /\ requirement.kind = "object"
     /\ TheConstraint.operator = <<"~">>
     /\ IsMajorMinor(TheConstraint.version)
     /\ currentVersion \in GridVersions
     /\ IsRelease(Current)) =>
        (result.satisfies <=> /\ Current.major = MajorOf(TheConstraint.version)
                              /\ Current.minor = MinorOf(TheConstraint.version))

C17_TildeSemantics == TildePatchLevel /\ TildeMinorLevel

-----------------------------------------------------------------------------
(* C18: the documented requirement string ">= 20.0.0, < 22" is a usable    *)
(* range: it parses into the constraints (>=, 20.0.0) and (<, 22), and the *)
(* detected version 21.0.0 inside it is reported with satisfies true and   *)
(* both constraints in satisfiedConstraints.                               *)

C18_DocumentedExampleIsUsable ==
    (/\ Returned
     /\ requirement = StringRequirement(DocumentedExample)
     /\ currentVersion = DocumentedCurrent) =>
        /\ parsedRequirements =
              << Constraint(<<">", "=">>, <<"2", "0", ".", "0", ".", "0">>),
                 Constraint(<<"<">>, <<"2", "2">>) >>
        /\ result.satisfies
        /\ Len(result.satisfiedConstraints) = 2
        /\ result.failedConstraints = <<>>

-----------------------------------------------------------------------------
(* C19: when no version is detected for a binary (parseVersion returns     *)
(* null, the run of the command fails, or the detected text is empty),     *)
(* checkVersion calls neither the evaluator nor getComponents, and returns *)
(* currentVersion null, satisfies false, the error "Binary '<name>' not    *)
(* found or version could not be determined" and neither list.             *)

\* A checker is configured for the i-th binary and gives no version.
NoVersionDetected(i) ==
    /\ environment[i].checker
    /\ \/ environment[i].run = "throws"
       \/ environment[i].version = None
       \/ environment[i].version = Some(<<>>)

C19_NotFoundWithoutEvaluation ==
    \A i \in DOMAIN requirements :
        NoVersionDetected(i) =>
            /\ <<i, "satisfiesRequirement">> \notin calls
            /\ <<i, "getComponents">> \notin calls
            /\ stage[i] # "components"
            /\ stage[i] = "done" =>
                  /\ results[i].currentVersion = None
                  /\ ~results[i].satisfies
                  /\ results[i].error = Some(NotFoundMessage(requirements[i].binary))
                  /\ results[i].failedConstraints = None
                  /\ results[i].satisfiedConstraints = None
                  /\ results[i].components = None

\* The run has two binaries: the detected text of one is empty and its
\* check has returned, the version of the other was evaluated.
C19_Witness ==
    /\ Len(requirements) = 2
    /\ \E i, j \in DOMAIN requirements :
          /\ environment[i].checker
          /\ environment[i].version = Some(<<>>)
          /\ stage[i] = "done"
          /\ results[i] = NotFoundResult(requirements[i].binary)
          /\ <<j, "satisfiesRequirement">> \in calls

-----------------------------------------------------------------------------
(* C20: once the config is loaded and validated, the run exits with a      *)
(* non-zero code exactly when the result of some checked binary has        *)
(* satisfies false, and it exits only after the status line, and the line  *)
(* of failed constraints, of every result has been printed.                *)

Exited == exitCode # None

C20_ExitAfterEveryResult ==
    Exited =>
        /\ exitCode # Some(0) <=> \E i \in DOMAIN results : ~results[i].satisfies
        /\ \A i \in DOMAIN results :
              /\ StatusLine(results[i]) \in Elements(output)
              /\ results[i].failedConstraints # None =>
                    Line("failed", results[i].binary, results[i].failedConstraints[1])
                       \in Elements(output)

\* The run has exited with a failure, the first of two results being the
\* one not satisfied, and the lines of the second are printed.
C20_Witness ==
    /\ Exited
    /\ exitCode = Some(1)
    /\ Len(results) = 2
    /\ ~results[1].satisfies
    /\ results[1].failedConstraints # None
    /\ results[2].satisfies
    /\ StatusLine(results[2]) \in Elements(output)

-----------------------------------------------------------------------------
(* C21: checkMultiple runs the checks of the entries concurrently and      *)
(* returns exactly one result per entry of the requirements record, in     *)
(* the order of the entries, whatever the order in which the runs          *)
(* complete; the result of an entry is what checkVersion returns for that  *)
(* entry alone.                                                            *)

CheckMultipleReturned == runPc \in {"forEach", "exited"}

C21_OneResultPerEntryInOrder ==
    /\ DOMAIN results = DOMAIN requirements
    /\ \A i \in DOMAIN requirements :
          stage[i] = "done" =>
              results[i] = checkVersion(requirements[i].binary,
                                        requirements[i].requirement,
                                        environment[i])
    /\ CheckMultipleReturned => \A i \in DOMAIN requirements : stage[i] = "done"

\* The check of the second entry has completed while the check of the
\* first is waiting for its components.
C21_Witness ==
    /\ Len(requirements) = 2
    /\ stage[1] = "components"
    /\ stage[2] = "done"
    /\ results[2].binary = requirements[2].binary
    /\ results[2].currentVersion # None

-----------------------------------------------------------------------------
(* C23: the order of the constraints does not matter to satisfaction:      *)
(* every permutation of a constraint list gives the same satisfies and     *)
(* the same sets of satisfied and of failed entries.                       *)

Permuted(seq, f) == [i \in DOMAIN seq |-> seq[f[i]]]

PermutationsOf(seq) ==
    {Permuted(seq, f) : f \in {g \in [DOMAIN seq -> DOMAIN seq] :
                                  \A i, j \in DOMAIN seq : g[i] = g[j] => i = j}}

C23_OrderIrrelevantToSatisfaction ==
    (Returned /\ requirement.kind = "array") =>
        \A reqs \in PermutationsOf(requirement.items) :
            /\ OfList(reqs).satisfies = result.satisfies
            /\ Elements(OfList(reqs).failedConstraints)
                  = Elements(result.failedConstraints)
            /\ Elements(OfList(reqs).satisfiedConstraints)
                  = Elements(result.satisfiedConstraints)

\* A list of a failed and then a satisfied constraint has been evaluated.
C23_Witness ==
    /\ Returned
    /\ CurrentIsValid
    /\ requirement.kind = "array"
    /\ Len(requirement.items) = 2
    /\ result.failedConstraints = <<ExpectedEntry(requirement.items[1])>>
    /\ result.satisfiedConstraints = <<ExpectedEntry(requirement.items[2])>>
    /\ OfList(<<requirement.items[2], requirement.items[1]>>).satisfies = result.satisfies

-----------------------------------------------------------------------------
(* C25: checkVersion never rejects: for a binary without a registered      *)
(* checker it resolves to currentVersion null, satisfies false and the     *)
(* error "No checker configured for binary: <name>"; so checkMultiple      *)
(* never rejects and the results of the other binaries are returned.       *)

C25_UnknownBinaryIsAResult ==
    /\ \A i \in DOMAIN requirements :
          (stage[i] = "done" /\ ~environment[i].checker) =>
              /\ results[i].binary = requirements[i].binary
              /\ results[i].currentVersion = None
              /\ ~results[i].satisfies
              /\ results[i].error = Some(NoCheckerConfigured(requirements[i].binary))
    /\ (CheckMultipleReturned /\ \E i \in DOMAIN requirements : ~environment[i].checker) =>
          \A j \in DOMAIN requirements :
              results[j] = checkVersion(requirements[j].binary,
                                        requirements[j].requirement,
                                        environment[j])

\* checkMultiple has returned for an unknown binary and a binary whose
\* version was detected.
C25_Witness ==
    /\ CheckMultipleReturned
    /\ \E i, j \in DOMAIN requirements :
          /\ ~environment[i].checker
          /\ results[i].error = Some(NoCheckerConfigured(requirements[i].binary))
          /\ environment[j].checker
          /\ results[j].currentVersion # None

-----------------------------------------------------------------------------
(* C30: the evaluator that reports constraints refines the earlier boolean *)
(* evaluator: for every current version and every single constraint        *)
(* object, the satisfies it returns is the boolean the earlier             *)
(* satisfiesRequirement returns (false when either version does not        *)
(* clean, else the range test).                                            *)

C30_RefinesBooleanEvaluator ==
    (Returned /\ requirement.kind = "object") =>
        result.satisfies = satisfiesRequirementBoolean(currentVersion, requirement.items[1])

\* A single constraint object has been found not satisfied by a valid
\* current version, its own version being valid.
C30_Witness ==
    /\ Returned
    /\ requirement.kind = "object"
    /\ CurrentIsValid
    /\ Truthy(semverClean(requirement.items[1].version))
    /\ ~result.satisfies
    /\ ~satisfiesRequirementBoolean(currentVersion, requirement.items[1])

-----------------------------------------------------------------------------
(* C29: within one checkVersion call the command is run to detect the      *)
(* version, then the requirement is evaluated, then, only if a version was *)
(* detected, the command is run again for the components; the components   *)
(* are attached whenever the component rule returns a mapping, satisfied   *)
(* or not, and a failure of the component run gives a result without       *)
(* components, not an error.                                               *)

StepsOfCheckVersion == <<"getCurrentVersion", "satisfiesRequirement", "getComponents">>

VersionDetected(i) ==
    /\ environment[i].checker
    /\ environment[i].run = "ok"
    /\ Truthy(environment[i].version)

C29_StepsOfCheckVersionInOrder ==
    \A i \in DOMAIN requirements :
        /\ \E n \in 0..3 : steps[i] = SubSeq(StepsOfCheckVersion, 1, n)
        /\ stage[i] = "start" <=> steps[i] = <<>>
        /\ (stage[i] # "start" /\ ~VersionDetected(i)) => steps[i] = <<"getCurrentVersion">>
        /\ (stage[i] # "start" /\ VersionDetected(i)) => steps[i] = StepsOfCheckVersion
        /\ (stage[i] = "done" /\ VersionDetected(i)) =>
              /\ results[i].error = None
              /\ results[i].currentVersion = environment[i].version
              /\ results[i].components =
                    IF environment[i].componentsRun = "throws" THEN None
                    ELSE environment[i].components

\* A check has returned a result that is not satisfied and carries
\* components, and another a result without components because the
\* component run failed.
C29_Witness ==
    \E i, j \in DOMAIN requirements :
        /\ stage[i] = "done"
        /\ ~results[i].satisfies
        /\ results[i].components # None
        /\ stage[j] = "done"
        /\ environment[j].componentsRun = "throws"
        /\ results[j].components = None
        /\ results[j].error = None
        /\ steps[j] = StepsOfCheckVersion

-----------------------------------------------------------------------------
(* C26: when the validated config has no requirements key, the whole       *)
(* config is taken as the requirements map, so every top-level binary      *)
(* entry of a config of the old style is still checked and can make the    *)
(* run fail.                                                               *)

ConfigValidated == runPc \notin {"idle", "loadConfig"} /\ safeParseSuccess(rawConfig)

C26_OldStyleConfigIsChecked ==
    (ConfigValidated /\ ~HasKey(rawConfig, "requirements")) =>
        \A i \in DOMAIN rawConfig :
            rawConfig[i].kind = "requirement" =>
                RequirementOf(rawConfig[i].key, rawConfig[i].requirement)
                    \in Elements(requirements)

-----------------------------------------------------------------------------
(* C28: every VersionCheckResult of checkVersion keeps these relations:    *)
(* satisfies is false exactly when it carries an error or a non-empty      *)
(* failedConstraints; the two lists are present only when non-empty; error *)
(* and the lists are never present together; currentVersion is null        *)
(* exactly when error is present.                                          *)

Present(field) == field # None

C28_RelationsOfVersionCheckResult ==
    \A i \in DOMAIN results :
        stage[i] = "done" =>
            /\ ~results[i].satisfies <=>
                  \/ Present(results[i].error)
                  \/ /\ Present(results[i].failedConstraints)
                     /\ Len(results[i].failedConstraints[1]) > 0
            /\ Present(results[i].failedConstraints) =>
                  Len(results[i].failedConstraints[1]) > 0
            /\ Present(results[i].satisfiedConstraints) =>
                  Len(results[i].satisfiedConstraints[1]) > 0
            /\ Present(results[i].error) =>
                  /\ ~Present(results[i].failedConstraints)
                  /\ ~Present(results[i].satisfiedConstraints)
            /\ results[i].currentVersion = None <=> Present(results[i].error)

\* The checks of a config have returned a result with an error and a
\* satisfied result with a constraint list.
C28_Witness ==
    \E i, j \in DOMAIN results :
        /\ stage[i] = "done"
        /\ Present(results[i].error)
        /\ stage[j] = "done"
        /\ results[j].satisfies
        /\ Present(results[j].satisfiedConstraints)
        /\ ~Present(results[j].failedConstraints)

-----------------------------------------------------------------------------
(* C27: after any sequence of constructor and addChecker calls the         *)
(* registry holds at most one checker per name, the most recently added    *)
(* one: a checker added under an existing name replaces the earlier one,   *)
(* so the additional checkers of createEnvChecker override the built-in    *)
(* ones of the same name, and checkers under other names are unchanged.    *)

LastAdded(name) == added[Max({k \in DOMAIN added : added[k].name = name})]

C27_RegistryHoldsLastAddedPerName ==
    registryPc = "constructed" =>
        /\ \A i, j \in DOMAIN checkers : checkers[i].key = checkers[j].key => i = j
        /\ {checkers[i].key : i \in DOMAIN checkers} = {added[k].name : k \in DOMAIN added}
        /\ \A i \in DOMAIN checkers : checkers[i].value = LastAdded(checkers[i].key)

\* createEnvChecker was given a checker named bun, addChecker was called,
\* and the registry holds a bun that is not the built-in one beside the
\* built-in git.
C27_Witness ==
    /\ registryPc = "constructed"
    /\ given > Len(commonCheckers)
    /\ Len(added) > given
    /\ MapHas(checkers, "bun")
    /\ MapGet(checkers, "bun") # commonCheckers[8]
    /\ MapGet(checkers, "git") = commonCheckers[4]
    /\ Len(checkers) < Len(added)

-----------------------------------------------------------------------------
(* C24: each of the eight built-in checkers (node, npm, pnpm, git, docker, *)
(* python, python3, bun) exists, and its version rule returns the first    *)
(* major.minor.patch triple in the expected format of the tool's output    *)
(* (docker: the Client.Version field of the JSON output) and null for an   *)
(* output with no version in that format (docker: an output that is no     *)
(* JSON, or JSON without Client.Version).                                  *)

BuiltInNames == {"node", "npm", "pnpm", "git", "docker", "python", "python3", "bun"}

\* What precedes the version in the output of a tool.
FormatOf(name) ==
    IF name = "git" THEN <<"g", "i", "t", " ", "v", "e", "r", "s", "i", "o", "n", " ">>
    ELSE IF name \in {"python", "python3"} THEN <<"P", "y", "t", "h", "o", "n", " ">>
    ELSE <<>>

\* s[a..b] is digits, a dot, digits, a dot, digits.
IsTriple(s, a, b) ==
    \E p, q \in (a + 1)..(b - 1) :
        /\ p + 1 < q
        /\ s[p] = "." /\ s[q] = "."
        /\ \A k \in a..b : k \notin {p, q} => IsDigit(s[k])

\* A version in the format stands at s[a..b]: the format text, then a
\* triple that no digit continues.
VersionAt(format, s, a, b) ==
    /\ a > Len(format)
    /\ SubSeq(s, a - Len(format), a - 1) = format
    /\ IsTriple(s, a, b)
    /\ b = Len(s) \/ ~IsDigit(s[b + 1])

VersionsIn(format, s) ==
    {ab \in (1..Len(s)) \X (1..Len(s)) : VersionAt(format, s, ab[1], ab[2])}

FirstVersionIn(format, s) ==
    CHOOSE ab \in VersionsIn(format, s) : \A o \in VersionsIn(format, s) : ab[1] <= o[1]

\* The Client.Version of a document: the Version of its Client object,
\* when there is one that is not null.
HasMember(value, key) ==
    value.type = "object" /\ \E i \in DOMAIN value.members : value.members[i].key = key

LastMember(value, key) ==
    value.members[CHOOSE i \in DOMAIN value.members :
                      /\ value.members[i].key = key
                      /\ \A j \in DOMAIN value.members :
                            value.members[j].key = key => j <= i].value

HasClientVersion(document) ==
    /\ HasMember(document, ClientKey)
    /\ HasMember(LastMember(document, ClientKey), VersionKey)
    /\ LastMember(LastMember(document, ClientKey), VersionKey).type # "null"

C24_BuiltInRulesReadTheVersion ==
    /\ {commonCheckers[i].name : i \in DOMAIN commonCheckers} = BuiltInNames
    /\ Len(commonCheckers) = Cardinality(BuiltInNames)
    /\ parsePc = "done" =>
          IF parseChecker.name = "docker"
          THEN IF parseDocument # None /\ HasClientVersion(parseDocument[1])
               THEN parsed = Some(LastMember(LastMember(parseDocument[1], ClientKey), VersionKey))
               ELSE parsed = None
          ELSE IF VersionsIn(FormatOf(parseChecker.name), parseOutput) # {}
               THEN parsed = Some(JsString(SubSeq(parseOutput,
                          FirstVersionIn(FormatOf(parseChecker.name), parseOutput)[1],
                          FirstVersionIn(FormatOf(parseChecker.name), parseOutput)[2])))
               ELSE parsed = None

\* The rule of python has passed over a first "Python " that no triple
\* follows and returned the version after a later one.
C24_Witness ==
    /\ parsePc = "done"
    /\ parseChecker.name = "python"
    /\ parsed # None
    /\ VersionsIn(<<>>, parseOutput) # {}
    /\ FirstVersionIn(<<>>, parseOutput)[1] > Len(FormatOf("python")) + 1
    /\ StartsWith(parseOutput, FormatOf("python"))

-----------------------------------------------------------------------------
(* C22: evaluation is a pure function of its inputs: two calls with equal  *)
(* current version and equal requirement return equal results whatever     *)
(* calls were made in between, the requirement passed in is left           *)
(* unchanged, and the result lists of one call are never shared with or    *)
(* altered by another call.                                                *)

ListsOf(call) == {call.failedConstraints, call.satisfiedConstraints}

=============================================================================
